---- MODULE Spec2Model ----
(***************************************************************************)
(* FR-Ocean Engine: the scene/component scheduler (SceneDB), the frame     *)
(* loop (Engine::GameLoop / Engine::Update / Engine::Render) and the       *)
(* actor registry, modelled at the granularity of one scripted callback    *)
(* per step.  A scripted callback is an input: each invocation performs at *)
(* most one engine API call, drawn from ScriptOps.                         *)
(***************************************************************************)
EXTENDS Integers, Sequences, FiniteSets, TLC

\* ---------------------------------------------------------------- bounds
MaxFrame == 3        \* the loop plays frames 0 .. MaxFrame-1, then quits
MaxId == 3           \* actor ids 0 .. MaxId-1 can be handed out
MaxOps == 3          \* engine API calls made by scripts over the whole run
MaxTimers == 1       \* timer tasks scheduled at the same time
MaxContacts == 1     \* collision callbacks emitted by one physics step

NoFrame == -1        \* a Lua field that is nil (frame_added never written)

\* ------------------------------------------------------- component keys
\* A component key is a std::string; it is modelled as the sequence of its
\* character codes so that operator< is the real lexicographic comparison.
KeyA == <<1>>
KeyAB == <<1, 2>>
KeyB == <<2>>

RECURSIVE LexLess(_, _)
LexLess(a, b) ==
    IF b = <<>> THEN FALSE
    ELSE IF a = <<>> THEN TRUE
    ELSE IF a[1] < b[1] THEN TRUE
    ELSE IF a[1] > b[1] THEN FALSE
    ELSE LexLess(Tail(a), Tail(b))

RECURSIVE SortKeysDesc(_)
SortKeysDesc(S) ==
    IF S = {} THEN <<>>
    ELSE LET m == CHOOSE x \in S : \A y \in S \ {x} : LexLess(y, x)
         IN  <<m>> \o SortKeysDesc(S \ {m})

\* std::sort(keys.begin(), keys.end()) over the keys of one actor
RECURSIVE SortKeys(_)
SortKeys(S) ==
    IF S = {} THEN <<>>
    ELSE LET m == CHOOSE x \in S : \A y \in S \ {x} : LexLess(x, y)
         IN  <<m>> \o SortKeys(S \ {m})

\* ----------------------------------------------------- component types
\* "Ctl" is a scripted component exposing every lifecycle slot,
\* "GameManager" is the scripted component of the example game (OnStart,
\* OnUpdate), "Body" is the native Rigidbody userdata.
IsNative(type) == type = "Body"
HasOnStart(type) == type \in {"Ctl", "GameManager"}
HasOnUpdate(type) == type \in {"Ctl", "GameManager"}
HasOnLateUpdate(type) == type = "Ctl"
HasOnDestroy(type) == type = "Ctl"

\* The one scene file and the one actor template of the model: a list of
\* actors, each a list of <<key, type>> in the order the document gives.
SceneActors == << << <<KeyAB, "Ctl">>, <<KeyB, "GameManager">>, <<KeyA, "Body">> >> >>
TemplateComps == << <<KeyB, "Ctl">>, <<KeyA, "Body">> >>

CompKeys(list) == {list[i][1] : i \in 1..Len(list)}
CompTypeOf(list, key) == list[CHOOSE i \in 1..Len(list) : list[i][1] = key][2]

\* --------------------------------------------------------------- state
VARIABLES
    frame,                \* Helper::GetFrameNumber()
    pc,                   \* position of the main thread in the frame loop
    pending,              \* cache_to_process / keys_to_process of the running pass
    startSnapshot,        \* cache_to_process as the start pass of the running frame took it
    contacts,             \* collision callbacks emitted by the running physics step
    actors,               \* SceneDB::actors, id -> Actor
    lua,                  \* the component instances (Lua tables / userdata), by <<id, key>>
    actor_id_vec,         \* SceneDB::actor_id_vec
    actors_to_add,        \* SceneDB::actors_to_add (Actor*, named by the id of the pointee)
    actors_to_destroy,    \* SceneDB::actors_to_destroy
    id_ctr,               \* SceneDB::id_ctr
    next_scene,           \* SceneDB::next_scene_to_load is not empty
    onstart_new,          \* SceneDB::onstart_new
    on_start_cache,       \* keys of SceneDB::on_start_cache
    on_update_cache,      \* keys of SceneDB::on_update_cache
    on_late_update_cache, \* keys of SceneDB::on_late_update_cache
    timers,               \* number of tasks in Scheduler::tasks
    ops,                  \* engine API calls made by scripts so far
    hist,                 \* per component instance: the callbacks it has received
    destroyLog,           \* per actor: keys whose destroy hook ran in its latest teardown
    idLog,                \* the ids handed out, in order of actor creation
    selfDestroyed,        \* <<actor, frame>>: a component destroyed its own actor in OnUpdate
    fault,                \* frame of the latest scripting error caught by a pass
    offInPass,            \* components disabled by a callback of the running pass
    phase,                \* ranks of the phase events seen in the running frame
    image_draw_request_queue, \* ImageDB::image_draw_request_queue
    request_counter,      \* ImageDB::request_counter
    rendered,             \* the requests of the latest flush in the order they were drawn
    flushed,              \* the queue as the latest flush found it, in submission order
    pixel_draw_request_queue, \* ImageDB::pixel_draw_request_queue (number of requests)
    drawRequests,         \* TextDB::drawRequests (number of requests)
    rpc,                  \* position of the main thread between update and Engine::Render
    screen,               \* what the running Engine::Render has drawn, in order
    draw_failed,          \* a draw call of the latest image flush reported an error
    presented,            \* frames presented so far
    tasks,                \* Scheduler::tasks
    next_task_id,         \* Scheduler::next_task_id
    task_capacity,        \* tasks.capacity()
    tpc,                  \* position of the main thread in Scheduler::Update
    tidx,                 \* the range-for iterator of Scheduler::Update, as an index
    tend,                 \* the end iterator the range-for took when the loop began
    to_remove,            \* to_remove of the running Scheduler::Update
    freed,                \* the loop of Scheduler::Update reads a buffer the vector released
    tick,                 \* timer updates begun so far
    thist,                \* per task id: how it was created and when its callback ran
    tops,                 \* scheduler API calls made so far
    tweens,               \* Tween::tweens
    next_tween_id,        \* Tween::next_tween_id
    tween_capacity,       \* tweens.capacity()
    twpc,                 \* position of the main thread in Tween::Update
    twidx,                \* the range-for iterator of Tween::Update, as an index
    twend,                \* the end iterator the range-for took when the loop began
    tween_to_remove,      \* to_remove of the running Tween::Update
    twfreed,              \* the loop of Tween::Update reads a buffer the vector released
    twtick,               \* tween updates begun so far
    twhist,               \* per tween id: how it was created and what it has called
    twops,                \* tween API calls made so far
    subscriptions,        \* EventSystem::subscriptions, <<>> for an event name without entry
    subscription_to_event, \* EventSystem::subscription_to_event
    next_subscription_id, \* EventSystem::next_subscription_id
    emits,                \* the calls of EventSystem::Emit in progress, innermost last
    ehist,                \* per subscription id: how it was made and how often it was called
    eops,                 \* event API calls made so far
    loop_pc,              \* position of the main thread in Engine::GameLoop, for asset errors
    quit,                 \* quit of Engine::GameLoop
    exit_code,            \* what main returned, NoFrame while it runs
    loop_frame,           \* iterations of the frame loop begun so far
    image_names,          \* imageName of the queued image draw requests
    text_fonts,           \* fontName of the requests in TextDB::drawRequests
    audio_calls,          \* calls of Audio.PlayChannel made by scripts so far
    asked,                \* iteration of the first request that named a missing asset
    reported,             \* script errors handed to SceneDB::ReportError so far
    grid,                 \* PuzzleGrid.grid, grid[x][y]
    score,                \* PuzzleGrid.score
    moves_left,           \* PuzzleGrid.moves_left
    game_over,            \* PuzzleGrid.game_over
    game_won,             \* PuzzleGrid.game_won
    selected,             \* <<PuzzleGrid.selected_x, PuzzleGrid.selected_y>>
    ppc,                  \* position of the script in TrySwap / ProcessMatches
    matches,              \* the matches the running ProcessMatches was called with
    swapLog,              \* the latest TrySwap: what it found and what followed
    keyStates,            \* Input::keyStates and Input::mouseButtonStates, per key or button
    justBecameDown,       \* Input::justBecameDown and Input::mouseButtonsJustDown
    justBecameUp,         \* Input::justBecameUp and Input::mouseButtonsJustUp
    ipc,                  \* position of Engine::GameLoop between the input calls
    polled,               \* per key: the events SDL_PollEvent returned in this iteration
    lastEvent,            \* per key: the latest event ever processed, "none" before the first
    layer_bits,           \* CollisionLayers::layer_bits, NoBit for a name not in the map
    collision_matrix,     \* CollisionLayers::collision_matrix
    layerCall,            \* the latest call made on CollisionLayers
    cpc,                  \* position of Engine::Update in its scene change branch
    teardown,             \* destroy hooks loadScene has still to run, as <<actor, key>>
    stamp,                \* the ids that were next when the per-scene systems were cleared
    templateLog           \* the latest InstantiateActor that threw, <<>> before the first

dbvars == <<actors, lua, actor_id_vec, actors_to_add, actors_to_destroy, id_ctr,
            next_scene, onstart_new, on_start_cache, on_update_cache,
            on_late_update_cache, timers, ops, hist, destroyLog, idLog, selfDestroyed,
            fault, offInPass>>
scenevars == <<frame, pc, pending, startSnapshot, contacts, phase, dbvars>>
drawvars == <<image_draw_request_queue, request_counter, rendered, flushed,
              pixel_draw_request_queue, drawRequests, rpc, screen, draw_failed, presented>>
timervars == <<tasks, next_task_id, task_capacity, tpc, tidx, tend, to_remove, freed,
               tick, thist, tops>>
tweenvars == <<tweens, next_tween_id, tween_capacity, twpc, twidx, twend, tween_to_remove,
               twfreed, twtick, twhist, twops>>
eventvars == <<subscriptions, subscription_to_event, next_subscription_id, emits, ehist,
               eops>>
puzzlevars == <<grid, score, moves_left, game_over, game_won, selected, ppc, matches,
                swapLog>>
inputvars == <<keyStates, justBecameDown, justBecameUp, ipc, polled, lastEvent>>
layervars == <<layer_bits, collision_matrix, layerCall>>
changevars == <<cpc, teardown, stamp>>
templatevars == <<templateLog>>
assetvars == <<loop_pc, quit, exit_code, loop_frame, image_names, text_fonts, audio_calls,
               asked, reported>>
auxvars == <<drawvars, timervars, tweenvars, eventvars, assetvars, puzzlevars,
    inputvars, layervars, changevars, templatevars>>
nondrawvars == <<scenevars, timervars, tweenvars, eventvars, assetvars, puzzlevars,
    inputvars, layervars, changevars, templatevars>>
nontimervars == <<scenevars, drawvars, tweenvars, eventvars, assetvars, puzzlevars,
    inputvars, layervars, changevars, templatevars>>
nontweenvars == <<scenevars, drawvars, timervars, eventvars, assetvars, puzzlevars,
    inputvars, layervars, changevars, templatevars>>
noneventvars == <<scenevars, drawvars, timervars, tweenvars, assetvars, puzzlevars,
    inputvars, layervars, changevars, templatevars>>
nonassetvars == <<scenevars, drawvars, timervars, tweenvars, eventvars, puzzlevars,
    inputvars, layervars, changevars, templatevars>>
nonpuzzlevars == <<scenevars, drawvars, timervars, tweenvars, eventvars, assetvars,
    inputvars, layervars, changevars, templatevars>>
noninputvars == <<scenevars, drawvars, timervars, tweenvars, eventvars, assetvars,
    puzzlevars, layervars, changevars, templatevars>>
nonlayervars == <<scenevars, drawvars, timervars, tweenvars, eventvars, assetvars,
    puzzlevars, inputvars, changevars, templatevars>>
vars == <<scenevars, auxvars>>

\* The scene database and its observers as one value, threaded through the
\* operators that model SceneDB's methods.
Cur ==
    [actors |-> actors, lua |-> lua, actor_id_vec |-> actor_id_vec,
     actors_to_add |-> actors_to_add, actors_to_destroy |-> actors_to_destroy,
     id_ctr |-> id_ctr, next_scene |-> next_scene, onstart_new |-> onstart_new,
     on_start_cache |-> on_start_cache, on_update_cache |-> on_update_cache,
     on_late_update_cache |-> on_late_update_cache, timers |-> timers, ops |-> ops,
     hist |-> hist, destroyLog |-> destroyLog, idLog |-> idLog,
     selfDestroyed |-> selfDestroyed, fault |-> fault, offInPass |-> offInPass]

Commit(s) ==
    /\ actors' = s.actors
    /\ lua' = s.lua
    /\ actor_id_vec' = s.actor_id_vec
    /\ actors_to_add' = s.actors_to_add
    /\ actors_to_destroy' = s.actors_to_destroy
    /\ id_ctr' = s.id_ctr
    /\ next_scene' = s.next_scene
    /\ onstart_new' = s.onstart_new
    /\ on_start_cache' = s.on_start_cache
    /\ on_update_cache' = s.on_update_cache
    /\ on_late_update_cache' = s.on_late_update_cache
    /\ timers' = s.timers
    /\ ops' = s.ops
    /\ hist' = s.hist
    /\ destroyLog' = s.destroyLog
    /\ idLog' = s.idLog
    /\ selfDestroyed' = s.selfDestroyed
    /\ fault' = s.fault
    /\ offInPass' = s.offInPass

\* ---------------------------------------------------- component creation
\* ComponentDB::CreateComponent: a fresh instance, enabled, not started,
\* with no frame bookkeeping yet.
NewComponent(type) ==
    [type |-> type, enabled |-> ~IsNative(type), on_start |-> FALSE,
     frame_added |-> NoFrame, new_addition |-> FALSE]

NewHist ==
    [starts |-> 0, lastUpd |-> NoFrame, lastLate |-> NoFrame, created |-> NoFrame,
     suppressedAt |-> NoFrame, disabledEver |-> FALSE, offCall |-> FALSE,
     removedAt |-> NoFrame, destroys |-> 0]

\* The observers note a run of the destroy hook of a component instance
\* (a scripted OnDestroy or Rigidbody::OnDestroy); runs past the second are
\* not told apart.
OnDestroyCalled(h) == [h EXCEPT !.destroys = IF @ < 2 THEN @ + 1 ELSE @]

\* Actor::name as the scene document and the actor template give it.
ActorName(list) == IF list = TemplateComps THEN "Enemy" ELSE "Player"

NewActor(id, uid, list) ==
    [id |-> id, uid |-> uid, name |-> ActorName(list), destroyed |-> FALSE,
     dont_destroy |-> FALSE,
     component_keys |-> CompKeys(list), components |-> CompKeys(list),
     components_to_remove |-> <<>>]

\* ComponentDB::loadComponents: every component of the list is created and
\* injected into the actor.
loadComponents(s, id, list) ==
    [s EXCEPT
       !.lua = [k \in {<<id, key>> : key \in CompKeys(list)} |->
                   NewComponent(CompTypeOf(list, k[2]))] @@ @,
       !.hist = [k \in {<<id, key>> : key \in CompKeys(list)} |-> NewHist] @@ @]

\* ------------------------------------------------------ scheduler caches
\* variant that registers a scripted component whatever its enabled field
addComponentToCachesAnyway(s, actorId, key) ==
    LET ck == <<actorId, key>>
        c == s.lua[ck]
    IN  [s EXCEPT
           !.on_start_cache =
               IF HasOnStart(c.type) /\ ~c.on_start THEN @ \cup {ck} ELSE @,
           !.on_update_cache =
               IF HasOnUpdate(c.type) \/ IsNative(c.type) THEN @ \cup {ck} ELSE @,
           !.on_late_update_cache =
               IF HasOnLateUpdate(c.type) \/ IsNative(c.type) THEN @ \cup {ck} ELSE @]

\* SceneDB::addComponentToCaches
addComponentToCaches(s, actorId, key) ==
    LET ck == <<actorId, key>>
        c == s.lua[ck]
    IN  IF IsNative(c.type)
        THEN [s EXCEPT !.on_update_cache = @ \cup {ck},
                       !.on_late_update_cache = @ \cup {ck}]
        ELSE IF ~c.enabled THEN s
        ELSE [s EXCEPT
                !.on_start_cache =
                    IF HasOnStart(c.type) /\ ~c.on_start THEN @ \cup {ck} ELSE @,
                !.on_update_cache =
                    IF HasOnUpdate(c.type) THEN @ \cup {ck} ELSE @,
                !.on_late_update_cache =
                    IF HasOnLateUpdate(c.type) THEN @ \cup {ck} ELSE @]

removeComponentFromCaches(s, actorId, key) ==
    [s EXCEPT !.on_start_cache = @ \ {<<actorId, key>>},
              !.on_update_cache = @ \ {<<actorId, key>>},
              !.on_late_update_cache = @ \ {<<actorId, key>>}]

\* iteration of Actor::component_keys, a std::set<std::string>: ascending
RECURSIVE IterateKeys(_)
IterateKeys(S) ==
    IF S = {} THEN <<>>
    ELSE LET m == CHOOSE x \in S : \A y \in S \ {x} : LexLess(x, y)
         IN  <<m>> \o IterateKeys(S \ {m})

RECURSIVE RebuildActor(_, _, _)
RebuildActor(s, actorId, keys) ==
    IF keys = <<>> THEN s
    ELSE RebuildActor(
           IF keys[1] \in s.actors[actorId].components
           THEN addComponentToCaches(s, actorId, keys[1]) ELSE s,
           actorId, Tail(keys))

RECURSIVE RebuildActors(_, _)
RebuildActors(s, ids) ==
    IF ids = {} THEN s
    ELSE LET a == CHOOSE x \in ids : TRUE
         IN  RebuildActors(
               IF s.actors[a].destroyed THEN s
               ELSE RebuildActor(s, a, IterateKeys(s.actors[a].component_keys)),
               ids \ {a})

rebuildComponentCaches(s) ==
    RebuildActors([s EXCEPT !.on_start_cache = {}, !.on_update_cache = {},
                            !.on_late_update_cache = {}],
                  DOMAIN s.actors)

\* ------------------------------------------------------- instantiation
\* The loop body of InstantiateActor for one component key.
InstantiateKey(s, newId, key, fr) ==
    LET ck == <<newId, key>>
        s1 == IF ~IsNative(s.lua[ck].type)
              THEN [s EXCEPT !.lua[ck].frame_added = fr,
                             !.lua[ck].new_addition = TRUE,
                             !.hist[ck].created = fr]
              ELSE s
    IN  addComponentToCaches(s1, newId, key)

RECURSIVE InstantiateKeys(_, _, _, _)
InstantiateKeys(s, newId, keys, fr) ==
    IF keys = <<>> THEN s
    ELSE InstantiateKeys(InstantiateKey(s, newId, keys[1], fr), newId, Tail(keys), fr)

InstantiateActorReuseId(s, fr) ==
    LET newId == s.id_ctr
        s1 == [s EXCEPT !.actors = (newId :> NewActor(newId, Len(s.idLog) + 1, TemplateComps)) @@ @,
                        !.idLog = Append(@, newId)]
        s2 == loadComponents(s1, newId, TemplateComps)
        s3 == InstantiateKeys(s2, newId, IterateKeys(s2.actors[newId].component_keys), fr)
    IN  [s3 EXCEPT !.actors_to_add = Append(@, newId), !.onstart_new = TRUE]

\* SceneDB::InstantiateActor(temp) called in frame fr
InstantiateActor(s, fr) ==
    LET newId == s.id_ctr
        s1 == [s EXCEPT !.id_ctr = @ + 1,
                        !.actors = (newId :> NewActor(newId, Len(s.idLog) + 1, TemplateComps)) @@ @,
                        !.idLog = Append(@, newId)]
        s2 == loadComponents(s1, newId, TemplateComps)
        s3 == InstantiateKeys(s2, newId, IterateKeys(s2.actors[newId].component_keys), fr)
    IN  [s3 EXCEPT !.actors_to_add = Append(@, newId), !.onstart_new = TRUE]

\* --------------------------------------------------------- destruction
\* The loop body of DestroyActor for one key: the destroy hook (a scripted
\* OnDestroy or Rigidbody::OnDestroy), then enabled = false and the removal
\* from the caches.
DestroyKey(s, a, key) ==
    IF key \notin s.actors[a].components THEN s
    ELSE LET ck == <<a, key>>
             t == s.lua[ck].type
             s1 == IF HasOnDestroy(t) \/ IsNative(t)
                   THEN [s EXCEPT !.destroyLog[a] = Append(@, key),
                                  !.hist[ck] = OnDestroyCalled(@)]
                   ELSE s
             s2 == [s1 EXCEPT !.lua[ck].enabled = FALSE]
         IN  removeComponentFromCaches(s2, a, key)

RECURSIVE DestroyKeys(_, _, _)
DestroyKeys(s, a, keys) ==
    IF keys = <<>> THEN s
    ELSE DestroyKeys(DestroyKey(s, a, keys[1]), a, Tail(keys))

\* variant that takes the actor out of the registry at the request
DestroyActorNow(s, a) ==
    [s EXCEPT !.actors = [id \in DOMAIN @ \ {a} |-> @[id]],
              !.actors_to_destroy = Append(@, a),
              !.on_start_cache = {e \in @ : e[1] # a},
              !.on_update_cache = {e \in @ : e[1] # a},
              !.on_late_update_cache = {e \in @ : e[1] # a}]

\* SceneDB::DestroyActor(actor)
DestroyActor(s, a) ==
    LET s1 == [s EXCEPT !.actors[a].destroyed = TRUE,
                        !.actors_to_destroy = Append(@, a),
                        !.destroyLog = (a :> <<>>) @@ @]
    IN  DestroyKeys(s1, a, SortKeys(s1.actors[a].component_keys))

SeqRange(q) == {q[i] : i \in 1..Len(q)}

ActorsPendingDestructionKeep(s) ==
    [s EXCEPT !.actor_id_vec = SelectSeq(@, LAMBDA x : x \notin SeqRange(s.actors_to_destroy)),
              !.actors_to_destroy = <<>>]

\* SceneDB::ActorsPendingDestruction
ActorsPendingDestruction(s) ==
    IF s.actors_to_destroy = <<>> THEN s
    ELSE [s EXCEPT
            !.actors = [id \in DOMAIN @ \ SeqRange(s.actors_to_destroy) |-> @[id]],
            !.actor_id_vec = SelectSeq(@, LAMBDA x : x \notin SeqRange(s.actors_to_destroy)),
            !.actors_to_destroy = <<>>]

\* --------------------------------------------------- component removal
\* Actor::RemoveComponent: the component is marked for the deferred removal.
RemoveComponent(s, c) ==
    [s EXCEPT !.actors[c[1]].components_to_remove = Append(@, c[2])]

\* The keys RemoveActorComponents takes from actor a.
RemovedKeys(s, a) == SeqRange(s.actors[a].components_to_remove)

\* SceneDB::RemoveActorComponents, run in frame fr: for every actor of the
\* registry the marked components get their destroy hook in sorted key order
\* and leave component_keys and components; the caches are not touched.
RemoveActorComponents(s, fr) ==
    [s EXCEPT
       !.actors = [a \in DOMAIN @ |->
                     [@[a] EXCEPT !.component_keys = @ \ RemovedKeys(s, a),
                                  !.components = @ \ RemovedKeys(s, a),
                                  !.components_to_remove = <<>>]],
       !.hist = [e \in DOMAIN @ |->
                   IF /\ e[1] \in DOMAIN s.actors
                      /\ e[2] \in RemovedKeys(s, e[1])
                      /\ e[2] \in s.actors[e[1]].components
                   THEN IF HasOnDestroy(s.lua[e].type) \/ IsNative(s.lua[e].type)
                        THEN OnDestroyCalled([@[e] EXCEPT !.removedAt = fr])
                        ELSE [@[e] EXCEPT !.removedAt = fr]
                   ELSE @[e]]]

\* ---------------------------------------------------------- scene load
\* The keys whose destroy hook loadScene runs for a non-persistent actor.
TeardownLog(s, a) ==
    SelectSeq(SortKeys(s.actors[a].component_keys),
              LAMBDA k : /\ k \in s.actors[a].components
                         /\ (HasOnDestroy(s.lua[<<a, k>>].type) \/ IsNative(s.lua[<<a, k>>].type)))

\* variant that keeps every actor marked dont_destroy
PersistentAnyway(s) == {a \in DOMAIN s.actors : s.actors[a].dont_destroy}

\* The actors loadScene moves into persistent_actors.
Persistent(s) == {a \in DOMAIN s.actors : s.actors[a].dont_destroy /\ ~s.actors[a].destroyed}

\* The loop of loadScene over the actors of the scene document.
RECURSIVE LoadSceneActors(_, _)
LoadSceneActors(s, i) ==
    IF i > Len(SceneActors) THEN s
    ELSE LET id == s.id_ctr
             s1 == loadComponents(s, id, SceneActors[i])
         IN  LoadSceneActors(
               [s1 EXCEPT !.actors = (id :> NewActor(id, Len(s.idLog) + 1, SceneActors[i])) @@ @,
                          !.actor_id_vec = Append(@, id),
                          !.idLog = Append(@, id),
                          !.id_ctr = @ + 1],
               i + 1)

\* SceneDB::loadScene; order is the order in which the unordered registry
\* yielded the persistent actors.
loadScene(s, order) ==
    LET keep == Persistent(s)
        s1 == [s EXCEPT
                 !.next_scene = FALSE,
                 !.destroyLog = [a \in DOMAIN s.actors \ keep |-> TeardownLog(s, a)] @@ @,
                 !.hist = [e \in DOMAIN @ |->
                             IF /\ e[1] \in DOMAIN s.actors \ keep
                                /\ e[2] \in SeqRange(TeardownLog(s, e[1]))
                             THEN OnDestroyCalled(@[e]) ELSE @[e]],
                 !.actors = [id \in {s.actors[a].id : a \in keep} |->
                               s.actors[CHOOSE a \in keep : s.actors[a].id = id]],
                 !.actor_id_vec = [i \in 1..Len(order) |-> s.actors[order[i]].id]]
        s2 == LoadSceneActors(s1, 1)
    IN  [rebuildComponentCaches(s2) EXCEPT !.onstart_new = TRUE]

Perms(S) ==
    {q \in [1..Cardinality(S) -> S] : \A i, j \in 1..Cardinality(S) : i # j => q[i] # q[j]}

\* ---------------------------------------------------------- actor lookup
\* The first loop of FindActor and of FindAllActor: the ids of actor_id_vec, in
\* order, whose actor is in the registry, bears the name and is not destroyed.
FoundActive(s, name) ==
    SelectSeq(s.actor_id_vec,
              LAMBDA id : /\ id \in DOMAIN s.actors
                          /\ s.actors[id].name = name
                          /\ ~s.actors[id].destroyed)

\* The second loop of FindActor: the Actor* of actors_to_add that bear the name.
FoundPendingAny(s, name) ==
    SelectSeq(s.actors_to_add,
              LAMBDA a : a \in DOMAIN s.actors /\ s.actors[a].name = name)

\* The second loop of FindAllActor.
FoundPending(s, name) ==
    SelectSeq(s.actors_to_add,
              LAMBDA a : /\ a \in DOMAIN s.actors
                         /\ s.actors[a].name = name
                         /\ ~s.actors[a].destroyed)

\* SceneDB::FindActor(name): the actor returned, <<>> for nil.
FindActor(s, name) ==
    IF FoundActive(s, name) # <<>> THEN <<Head(FoundActive(s, name))>>
    ELSE IF FoundPendingAny(s, name) # <<>> THEN <<Head(FoundPendingAny(s, name))>>
    ELSE <<>>

\* SceneDB::FindAllActor(name): the table returned.
FindAllActor(s, name) == FoundActive(s, name) \o FoundPending(s, name)

\* ------------------------------------------------------ scripted calls
\* What one callback invocation asks of the engine.
ScriptedInstances(s) ==
    {ck \in DOMAIN s.lua : /\ ck[1] \in DOMAIN s.actors
                           /\ ~s.actors[ck[1]].destroyed
                           /\ ck[2] \in s.actors[ck[1]].components
                           /\ ~IsNative(s.lua[ck].type)}

ScriptOps(s, inTimer) ==
    {[k |-> "none"]} \cup
    (IF s.ops >= MaxOps THEN {}
     ELSE {[k |-> "instantiate"] : x \in {1} \cap (IF s.id_ctr + (IF s.next_scene THEN Len(SceneActors) ELSE 0) < MaxId
                                   THEN {1} ELSE {})}
          \cup {[k |-> "destroy", a |-> a] : a \in DOMAIN s.actors}
          \cup {[k |-> "enable", c |-> c, v |-> ~s.lua[c].enabled] : c \in ScriptedInstances(s)}
          \cup {[k |-> "remove", c |-> c] :
                   c \in {x \in ScriptedInstances(s) :
                             x[2] \notin SeqRange(s.actors[x[1]].components_to_remove)}}
          \cup {[k |-> "load"] :
                   x \in {1} \cap (IF ~s.next_scene /\ s.id_ctr + Len(SceneActors) <= MaxId
                                   THEN {1} ELSE {})}
          \cup {[k |-> "after"] :
                   x \in {1} \cap (IF ~inTimer /\ s.timers < MaxTimers THEN {1} ELSE {})})

\* A callback of a pass may raise a scripting error instead.
ErrorOps(s) == IF s.ops >= MaxOps THEN {} ELSE {[k |-> "error"]}

\* SceneDB::DontDestroy(actor)
DontDestroy(s, a) == [s EXCEPT !.actors[a].dont_destroy = TRUE]

\* The fixed part of a script's OnStart: GameManager:OnStart keeps its actor
\* across scene changes.
OnStartScript(s, e) ==
    IF s.lua[e].type = "GameManager" THEN DontDestroy(s, e[1]) ELSE s

\* The engine entry point the call reaches, executed in frame fr.
ApplyOp(s, op, fr) ==
    IF op.k = "none" THEN s
    ELSE LET t == [s EXCEPT !.ops = @ + 1]
         IN  CASE op.k = "instantiate" -> InstantiateActor(t, fr)
               [] op.k = "destroy" -> DestroyActor(t, op.a)
               [] op.k = "enable" ->
                     [t EXCEPT !.lua[op.c].enabled = op.v,
                               !.hist[op.c].disabledEver = @ \/ ~op.v,
                               !.offInPass = IF op.v THEN @ ELSE @ \cup {op.c}]
               [] op.k = "load" -> [t EXCEPT !.next_scene = TRUE]
               [] op.k = "after" -> [t EXCEPT !.timers = @ + 1]
               [] op.k = "remove" -> RemoveComponent(t, op.c)
               [] op.k = "error" -> [t EXCEPT !.fault = fr]

\* --------------------------------------------------------- frame loop
\* Ranks of the events whose order within a frame the scheduler promises.
RStart == 1
RUpdate == 2
RCollision == 3
RLate == 4
RErase == 5
RFlush == 6

Event(r) == [seen |-> phase.seen \cup {r}, last |-> r]

EmptyDB ==
    [actors |-> <<>>, lua |-> <<>>, actor_id_vec |-> <<>>, actors_to_add |-> <<>>,
     actors_to_destroy |-> <<>>, id_ctr |-> 0, next_scene |-> FALSE,
     onstart_new |-> FALSE, on_start_cache |-> {}, on_update_cache |-> {},
     on_late_update_cache |-> {}, timers |-> 0, ops |-> 0, hist |-> <<>>,
     destroyLog |-> <<>>, idLog |-> <<>>, selfDestroyed |-> {}, fault |-> NoFrame,
     offInPass |-> {}]

\* Engine::Engine(): the subsystems are initialised and the initial scene is
\* loaded into an empty registry.
\* The event names the scripts use.
EventNames == {"score_changed", "game_won"}

\* The keys and mouse buttons the input queries are asked about.
Keys == {"space", "mouse1"}

\* The layer names used, and the value standing for a name absent from layer_bits.
LayerNames == {"default", "enemy", "player"}
NoBit == -1

Init ==
    /\ frame = 0
    /\ pc = "loop"
    /\ pending = {}
    /\ startSnapshot = {}
    /\ contacts = 0
    /\ phase = [seen |-> {}, last |-> 0]
    /\ LET s == loadScene(EmptyDB, <<>>)
       IN  /\ actors = s.actors
           /\ lua = s.lua
           /\ actor_id_vec = s.actor_id_vec
           /\ actors_to_add = s.actors_to_add
           /\ actors_to_destroy = s.actors_to_destroy
           /\ id_ctr = s.id_ctr
           /\ next_scene = s.next_scene
           /\ onstart_new = s.onstart_new
           /\ on_start_cache = s.on_start_cache
           /\ on_update_cache = s.on_update_cache
           /\ on_late_update_cache = s.on_late_update_cache
           /\ timers = s.timers
           /\ ops = s.ops
           /\ hist = s.hist
           /\ destroyLog = s.destroyLog
           /\ idLog = s.idLog
           /\ selfDestroyed = s.selfDestroyed
           /\ fault = s.fault
           /\ offInPass = s.offInPass
    /\ image_draw_request_queue = <<>>
    /\ request_counter = 0
    /\ rendered = <<>>
    /\ flushed = <<>>
    /\ pixel_draw_request_queue = 0
    /\ drawRequests = 0
    /\ rpc = "update"
    /\ screen = <<>>
    /\ draw_failed = FALSE
    /\ presented = 0
    /\ tasks = <<>>
    /\ next_task_id = 1
    /\ task_capacity = 0
    /\ tpc = "idle"
    /\ tidx = 1
    /\ tend = 0
    /\ to_remove = {}
    /\ freed = FALSE
    /\ tick = 0
    /\ thist = <<>>
    /\ tops = 0
    /\ tweens = <<>>
    /\ next_tween_id = 1
    /\ tween_capacity = 0
    /\ twpc = "idle"
    /\ twidx = 1
    /\ twend = 0
    /\ tween_to_remove = {}
    /\ twfreed = FALSE
    /\ twtick = 0
    /\ twhist = <<>>
    /\ twops = 0
    /\ subscriptions = [e \in EventNames |-> <<>>]
    /\ subscription_to_event = <<>>
    /\ next_subscription_id = 1
    /\ emits = <<>>
    /\ ehist = <<>>
    /\ eops = 0
    /\ loop_pc = "poll"
    /\ quit = FALSE
    /\ exit_code = NoFrame
    /\ loop_frame = 1
    /\ image_names = <<>>
    /\ text_fonts = <<>>
    /\ audio_calls = 0
    /\ asked = NoFrame
    /\ reported = 0
    /\ grid = <<>>
    /\ score = 0
    /\ moves_left = 0
    /\ game_over = FALSE
    /\ game_won = FALSE
    /\ selected = <<-1, -1>>
    /\ ppc = "created"
    /\ matches = {}
    /\ swapLog = <<>>
    /\ keyStates = [k \in Keys |-> "UP"]
    /\ justBecameDown = {}
    /\ justBecameUp = {}
    /\ ipc = "begin"
    /\ polled = [k \in Keys |-> <<>>]
    /\ lastEvent = [k \in Keys |-> "none"]
    /\ layer_bits = [n \in LayerNames |-> NoBit]
    /\ collision_matrix = {}
    /\ layerCall = [fn |-> "none"]
    /\ cpc = "play"
    /\ teardown = <<>>
    /\ stamp = [task |-> 1, tween |-> 1, sub |-> 1]
    /\ templateLog = <<>>

\* Engine::Update, a scene change is requested: the per-scene systems are
\* cleared and the scene is loaded.
EngineUpdateLoad ==
    /\ pc = "loop"
    /\ next_scene
    /\ \E order \in Perms(Persistent(Cur)) :
          Commit(loadScene([Cur EXCEPT !.timers = 0], order))
    /\ pc' = "timers"
    /\ phase' = [seen |-> {}, last |-> 0]
    /\ UNCHANGED <<frame, pending, contacts>>
    /\ UNCHANGED <<startSnapshot, auxvars>>

\* Engine::Update, no scene change requested.
EngineUpdateNoLoad ==
    /\ pc = "loop"
    /\ ~next_scene
    /\ pc' = "timers"
    /\ phase' = [seen |-> {}, last |-> 0]
    /\ UNCHANGED <<frame, pending, contacts, dbvars>>
    /\ UNCHANGED <<startSnapshot, auxvars>>

\* Scheduler::Update / Tween::Update: a task whose time has come runs its
\* callback and is removed.
TimerFire ==
    /\ pc = "timers"
    /\ timers > 0
    /\ \E op \in ScriptOps(Cur, TRUE) :
          Commit(ApplyOp([Cur EXCEPT !.timers = @ - 1], op, frame))
    /\ UNCHANGED <<frame, pc, pending, contacts, phase>>
    /\ UNCHANGED <<startSnapshot, auxvars>>

\* variant of the enabled test that lets every component through
DisabledNever(c) == FALSE

\* !comp["enabled"], read at the moment the callback would be invoked
Disabled(c) == ~c.enabled

\* The pass invokes a callback of e: the observers note whether the component
\* was enabled at that moment.
Invoked(s, e) == [s EXCEPT !.hist[e].offCall = @ \/ ~s.lua[e].enabled]

\* variant in which an escaping error ends the pass
CaughtAbort(rest, op) == IF op.k = "error" THEN {} ELSE rest

\* try { callback } catch (luabridge::LuaException&) { ReportError }: the
\* loop goes on with the remaining entries.
Caught(rest, op) == rest

\* variant of the suppression test that never suppresses
SuppressedNever(c, fr) == FALSE

\* creation-frame suppression test of the three passes
Suppressed(c, fr) == c.frame_added = fr /\ c.new_addition

\* SceneDB::UpdateScene entry and the head of ProcessSceneOnStart: the
\* start cache is moved into the pass's own copy and cleared.
BeginScene ==
    /\ pc = "timers"
    /\ pending' = IF onstart_new THEN on_start_cache ELSE {}
    /\ startSnapshot' = pending'
    /\ Commit(IF onstart_new
              THEN [Cur EXCEPT !.onstart_new = FALSE, !.on_start_cache = {},
                               !.offInPass = {}]
              ELSE [Cur EXCEPT !.offInPass = {}])
    /\ pc' = "start"
    /\ UNCHANGED <<frame, contacts, phase>>
    /\ UNCHANGED auxvars

StartMarkNever(s, e) == s

\* comp["on_start"] = true after the OnStart call
StartMark(s, e) == [s EXCEPT !.lua[e].on_start = TRUE]

\* One iteration of the loop of ProcessSceneOnStart.
StartStep ==
    /\ pc = "start"
    /\ \E e \in pending :
          IF \/ e[1] \notin DOMAIN actors
             \/ actors[e[1]].destroyed
             \/ Disabled(lua[e])
             \/ lua[e].on_start
          THEN /\ pending' = pending \ {e}
               /\ UNCHANGED <<phase, dbvars>>
          ELSE IF Suppressed(lua[e], frame)
          THEN /\ pending' = pending \ {e}
               /\ Commit([Cur EXCEPT !.hist[e].suppressedAt = frame])
               /\ UNCHANGED phase
          ELSE /\ \E op \in ScriptOps(Cur, FALSE) \cup ErrorOps(Cur) :
                     /\ pending' = Caught(pending \ {e}, op)
                     /\ Commit(StartMark(
                              ApplyOp(OnStartScript(
                                        Invoked([Cur EXCEPT !.hist[e].starts = @ + 1], e), e),
                                      op, frame), e))
               /\ phase' = Event(RStart)
    /\ UNCHANGED <<frame, pc, contacts>>
    /\ UNCHANGED <<startSnapshot, auxvars>>

\* variant that clears the start cache when the start pass ends instead of
\* when its snapshot is taken
BeginUpdateClearStart ==
    /\ pc = "start"
    /\ pending = {}
    /\ pending' = on_update_cache
    /\ pc' = "update"
    /\ Commit([Cur EXCEPT !.offInPass = {}, !.on_start_cache = {}])
    /\ UNCHANGED <<frame, contacts, phase>>
    /\ UNCHANGED <<startSnapshot, auxvars>>

\* End of the start pass; head of ProcessSceneUpdate: the keys are collected.
BeginUpdate ==
    /\ pc = "start"
    /\ pending = {}
    /\ pending' = on_update_cache
    /\ pc' = "update"
    /\ Commit([Cur EXCEPT !.offInPass = {}])
    /\ UNCHANGED <<frame, contacts, phase>>
    /\ UNCHANGED <<startSnapshot, auxvars>>

\* One iteration of the loop of ProcessSceneUpdate.
UpdateStep ==
    /\ pc = "update"
    /\ \E e \in pending :
          IF \/ e \notin on_update_cache
             \/ e[1] \notin DOMAIN actors
             \/ actors[e[1]].destroyed
             \/ IsNative(lua[e].type)
             \/ Disabled(lua[e])
             \/ Suppressed(lua[e], frame)
          THEN /\ pending' = pending \ {e}
               /\ UNCHANGED <<phase, dbvars>>
          ELSE /\ \E op \in ScriptOps(Cur, FALSE) \cup ErrorOps(Cur) :
                     /\ pending' = Caught(pending \ {e}, op)
                     /\ Commit(ApplyOp(
                          Invoked([Cur EXCEPT !.hist[e].lastUpd = frame,
                                              !.selfDestroyed =
                                                  IF op.k = "destroy" /\ op.a = e[1]
                                                  THEN @ \cup {<<e[1], frame>>} ELSE @], e),
                          op, frame))
               /\ phase' = Event(RUpdate)
    /\ UNCHANGED <<frame, pc, contacts>>
    /\ UNCHANGED <<startSnapshot, auxvars>>

\* End of the update pass; head of ProcessSceneLateUpdate.
BeginLate ==
    /\ pc = "update"
    /\ pending = {}
    /\ pending' = on_late_update_cache
    /\ pc' = "late"
    /\ Commit([Cur EXCEPT !.offInPass = {}])
    /\ UNCHANGED <<frame, contacts, phase>>
    /\ UNCHANGED <<startSnapshot, auxvars>>

\* One iteration of the loop of ProcessSceneLateUpdate.  A Rigidbody
\* userdata has no enabled field, so the enabled test skips it.
LateStep ==
    /\ pc = "late"
    /\ \E e \in pending :
          IF \/ e \notin on_late_update_cache
             \/ e[1] \notin DOMAIN actors
             \/ actors[e[1]].destroyed
             \/ Disabled(lua[e])
             \/ Suppressed(lua[e], frame)
          THEN /\ pending' = pending \ {e}
               /\ UNCHANGED <<phase, dbvars>>
          ELSE /\ \E op \in ScriptOps(Cur, FALSE) \cup ErrorOps(Cur) :
                     /\ pending' = Caught(pending \ {e}, op)
                     /\ Commit(ApplyOp(Invoked([Cur EXCEPT !.hist[e].lastLate = frame], e),
                                       op, frame))
               /\ phase' = Event(RLate)
    /\ UNCHANGED <<frame, pc, contacts>>
    /\ UNCHANGED <<startSnapshot, auxvars>>

\* The tail of UpdateScene up to the physics step: RemoveActorComponents,
\* ActorsPendingDestruction,
\* then the ids of the instantiated actors join actor_id_vec.  An entry of
\* actors_to_add whose actor has been erased is a dangling Actor*: the id
\* read through it is any value.
Reconcile ==
    /\ pc = "late"
    /\ pending = {}
    /\ LET s1 == ActorsPendingDestruction(RemoveActorComponents(Cur, frame))
       IN  /\ \E v \in [1..Len(actors_to_add) -> 0..MaxId] :
                 /\ \A i \in 1..Len(actors_to_add) :
                       actors_to_add[i] \in DOMAIN s1.actors
                          => v[i] = s1.actors[actors_to_add[i]].id
                 /\ Commit([s1 EXCEPT !.actor_id_vec = @ \o v, !.actors_to_add = <<>>,
                                       !.offInPass = {}])
           /\ phase' = IF DOMAIN s1.actors # DOMAIN actors THEN Event(RErase) ELSE phase
    /\ pc' = "physics"
    /\ contacts' = 0
    /\ UNCHANGED <<frame, pending>>
    /\ UNCHANGED <<startSnapshot, auxvars>>

\* Actors the physics bridge can report a contact for: alive, with a body.
Colliders(s) ==
    {a \in DOMAIN s.actors :
        /\ ~s.actors[a].destroyed
        /\ \E k \in s.actors[a].components : IsNative(s.lua[<<a, k>>].type)
        /\ \E k \in s.actors[a].components : ~IsNative(s.lua[<<a, k>>].type)}

\* RigidbodyWorld::UpdateWorld: the world step reports a contact and the
\* bridge runs a scripted collision callback.
CollisionCallback ==
    /\ pc = "physics"
    /\ contacts < MaxContacts
    /\ Colliders(Cur) # {}
    /\ \E op \in ScriptOps(Cur, FALSE) : Commit(ApplyOp(Cur, op, frame))
    /\ contacts' = contacts + 1
    /\ phase' = Event(RCollision)
    /\ UNCHANGED <<frame, pc, pending>>
    /\ UNCHANGED <<startSnapshot, auxvars>>

\* The world step and Engine::Update return; Engine::Render flushes the
\* queues and presents the frame, which advances the frame number.
Render ==
    /\ pc = "physics"
    /\ phase' = Event(RFlush)
    /\ frame' = frame + 1
    /\ pc' = IF frame + 1 < MaxFrame THEN "loop" ELSE "quit"
    /\ startSnapshot' = {}
    /\ UNCHANGED <<pending, contacts, dbvars>>
    /\ UNCHANGED auxvars

Next ==
    \/ EngineUpdateLoad
    \/ EngineUpdateNoLoad
    \/ TimerFire
    \/ BeginScene
    \/ StartStep
    \/ BeginUpdate
    \/ UpdateStep
    \/ BeginLate
    \/ LateStep
    \/ Reconcile
    \/ CollisionCallback
    \/ Render

Spec == Init /\ [][Next]_vars

\* --------------------------------------------------------- draw queue
\* Bounds of the draw-queue specification: the z-orders scripts pass, the
\* requests queued between two flushes, the requests of a run.
MaxZ == 2
MaxQueue == 3
MaxRequests == 4
MaxPixels == 1
MaxTexts == 1
MaxPresent == 2

\* ImageDB::QueueImageDrawEx with sortingOrder z: the request is stamped with
\* the submission counter and appended to the queue.
QueueImageDrawEx(z) ==
    /\ rpc = "update"
    /\ request_counter < MaxRequests
    /\ Len(image_draw_request_queue) < MaxQueue
    /\ image_draw_request_queue' =
           Append(image_draw_request_queue,
                  [sorting_order |-> z, order_index |-> request_counter,
                   frame |-> presented])
    /\ request_counter' = request_counter + 1
    /\ UNCHANGED <<rendered, flushed, pixel_draw_request_queue, drawRequests, rpc,
                   screen, draw_failed, presented, nondrawvars>>

\* ImageDB::QueueDrawPixel
QueueDrawPixel ==
    /\ rpc = "update"
    /\ pixel_draw_request_queue < MaxPixels
    /\ pixel_draw_request_queue' = pixel_draw_request_queue + 1
    /\ UNCHANGED <<image_draw_request_queue, request_counter, rendered, flushed,
                   drawRequests, rpc, screen, draw_failed, presented, nondrawvars>>

\* TextDB::QueueTextDraw
QueueTextDraw ==
    /\ rpc = "update"
    /\ drawRequests < MaxTexts
    /\ drawRequests' = drawRequests + 1
    /\ UNCHANGED <<image_draw_request_queue, request_counter, rendered, flushed,
                   pixel_draw_request_queue, rpc, screen, draw_failed, presented,
                   nondrawvars>>

\* variant that puts a request in front of the requests of equal sorting_order
RECURSIVE InsertBeforeEqual(_, _)
InsertBeforeEqual(q, r) ==
    IF q = <<>> THEN <<r>>
    ELSE IF r.sorting_order <= Head(q).sorting_order THEN <<r>> \o q
    ELSE <<Head(q)>> \o InsertBeforeEqual(Tail(q), r)

\* One insertion of the stable sort by sorting_order: r goes behind every
\* request whose sorting_order is not greater.
RECURSIVE InsertStable(_, _)
InsertStable(q, r) ==
    IF q = <<>> THEN <<r>>
    ELSE IF r.sorting_order < Head(q).sorting_order THEN <<r>> \o q
    ELSE <<Head(q)>> \o InsertStable(Tail(q), r)

\* std::stable_sort of the queue by sorting_order
RECURSIVE StableSort(_, _)
StableSort(sorted, q) ==
    IF q = <<>> THEN sorted
    ELSE StableSort(InsertStable(sorted, Head(q)), Tail(q))

\* variant of Engine::Render that flushes the pixel queue first
RenderNextPixelsFirst(step) ==
    CASE step = "update" -> "pixels"
      [] step = "pixels" -> "images"
      [] step = "images" -> "texts"
      [] step = "texts" -> "update"

\* The order of the calls of Engine::Render: clear, images, texts, pixels,
\* present; then the loop is back in Engine::Update.
RenderNext(step) ==
    CASE step = "update" -> "images"
      [] step = "images" -> "texts"
      [] step = "texts" -> "pixels"
      [] step = "pixels" -> "update"

LastRenderStep(step) == RenderNext(step) = "update"

Drawn(kind, n) == [i \in 1..n |-> kind]

\* Engine::Render begins: Renderer::clear
RendererClear ==
    /\ rpc = "update"
    /\ presented < MaxPresent
    /\ rpc' = RenderNext(rpc)
    /\ screen' = <<>>
    /\ UNCHANGED <<image_draw_request_queue, request_counter, rendered, flushed,
                   pixel_draw_request_queue, drawRequests, draw_failed, presented,
                   nondrawvars>>

\* variant that leaves the submission counter where it is
CounterAfterFlushKept(c) == c

\* the submission counter after a flush
CounterAfterFlush(c) == 0

\* ImageDB::RenderAndClearAllImages: sort, draw every request (a draw call
\* may report an error), clear the queue, reset the counter.
RenderAndClearAllImages ==
    /\ rpc = "images"
    /\ rendered' = StableSort(<<>>, image_draw_request_queue)
    /\ flushed' = image_draw_request_queue
    /\ screen' = screen \o Drawn("image", Len(image_draw_request_queue))
    /\ draw_failed' \in (IF image_draw_request_queue = <<>> THEN {FALSE} ELSE BOOLEAN)
    /\ image_draw_request_queue' = <<>>
    /\ request_counter' = CounterAfterFlush(request_counter)
    /\ rpc' = RenderNext(rpc)
    /\ presented' = IF LastRenderStep(rpc) THEN presented + 1 ELSE presented
    /\ UNCHANGED <<pixel_draw_request_queue, drawRequests, nondrawvars>>

\* TextDB::RenderQueuedTexts: the requests are drawn front to back and popped.
RenderQueuedTexts ==
    /\ rpc = "texts"
    /\ screen' = screen \o Drawn("text", drawRequests)
    /\ drawRequests' = 0
    /\ rpc' = RenderNext(rpc)
    /\ presented' = IF LastRenderStep(rpc) THEN presented + 1 ELSE presented
    /\ UNCHANGED <<image_draw_request_queue, request_counter, rendered, flushed,
                   pixel_draw_request_queue, draw_failed, nondrawvars>>

\* ImageDB::RenderAndClearAllPixels
RenderAndClearAllPixels ==
    /\ rpc = "pixels"
    /\ screen' = screen \o Drawn("pixel", pixel_draw_request_queue)
    /\ pixel_draw_request_queue' = 0
    /\ rpc' = RenderNext(rpc)
    /\ presented' = IF LastRenderStep(rpc) THEN presented + 1 ELSE presented
    /\ UNCHANGED <<image_draw_request_queue, request_counter, rendered, flushed,
                   drawRequests, draw_failed, nondrawvars>>

NextDraw ==
    \/ \E z \in 0..MaxZ : QueueImageDrawEx(z)
    \/ QueueDrawPixel
    \/ QueueTextDraw
    \/ RendererClear
    \/ RenderAndClearAllImages
    \/ RenderQueuedTexts
    \/ RenderAndClearAllPixels

SpecDraw == Init /\ [][NextDraw]_vars

\* ---------------------------------------------------------- scheduler
\* Bounds of the scheduler specification; one timer update stands for one
\* frame with delta_time 1.
MaxTasks == 3
MaxDelay == 2
MaxInterval == 1
MaxTick == 3
MaxTimerOps == 4

\* Scheduler's own state and its observers as one value.
Sched ==
    [tasks |-> tasks, next_task_id |-> next_task_id, task_capacity |-> task_capacity,
     thist |-> thist, tops |-> tops, grew |-> FALSE]

CommitSched(s) ==
    /\ tasks' = s.tasks
    /\ next_task_id' = s.next_task_id
    /\ task_capacity' = s.task_capacity
    /\ thist' = s.thist
    /\ tops' = s.tops

NewTaskHist(kind, d, iv, now) ==
    [kind |-> kind, d |-> d, iv |-> iv, born |-> now, fires |-> 0, lastFire |-> NoFrame,
     cancelled |-> FALSE, cancelAt |-> NoFrame, cleared |-> FALSE, lateFire |-> FALSE,
     offbeat |-> FALSE]

\* tasks.push_back(task): a full vector moves its elements to a larger buffer
\* and releases the old one.
PushBack(s, task) ==
    [s EXCEPT !.tasks = Append(@, task),
              !.task_capacity = IF Len(s.tasks) < @ THEN @ ELSE IF @ = 0 THEN 1 ELSE 2 * @,
              !.grew = @ \/ Len(s.tasks) = s.task_capacity]

\* Scheduler::After(delay, callback) with a function as callback
After(s, delay, now) ==
    LET id == s.next_task_id
    IN  PushBack([s EXCEPT !.next_task_id = @ + 1,
                           !.thist = (id :> NewTaskHist("after", delay, 0, now)) @@ @],
                 [id |-> id, delay |-> delay, interval |-> 0, repeat_count |-> 0,
                  cancelled |-> FALSE])

\* Scheduler::Every(delay, interval, callback) with a function as callback
Every(s, delay, interval, now) ==
    LET id == s.next_task_id
    IN  PushBack([s EXCEPT !.next_task_id = @ + 1,
                           !.thist = (id :> NewTaskHist("every", delay, interval, now)) @@ @],
                 [id |-> id, delay |-> delay, interval |-> interval, repeat_count |-> -1,
                  cancelled |-> FALSE])

TaskIds(q) == {q[i].id : i \in DOMAIN q}

\* Scheduler::Cancel(task_id)
Cancel(s, task_id) ==
    [s EXCEPT !.tasks = [i \in DOMAIN @ |->
                           IF @[i].id = task_id THEN [@[i] EXCEPT !.cancelled = TRUE]
                           ELSE @[i]]]

\* The observers note a Cancel that found its task, made while update now
\* was the latest to have begun.
CancelNoted(s, task_id, now) ==
    IF task_id \in TaskIds(s.tasks) /\ ~s.thist[task_id].cancelled
    THEN [s EXCEPT !.thist[task_id].cancelled = TRUE, !.thist[task_id].cancelAt = now]
    ELSE s

\* What a script asks of the scheduler in one call.
TimerCalls(s) ==
    IF s.tops >= MaxTimerOps THEN {}
    ELSE (IF s.next_task_id > MaxTasks THEN {}
          ELSE {[k |-> "after", d |-> d] : d \in 0..MaxDelay}
               \cup {[k |-> "every", d |-> d, iv |-> iv] :
                        d \in 0..MaxInterval, iv \in 0..MaxInterval})
         \cup {[k |-> "cancel", id |-> id] : id \in 0..(s.next_task_id - 1)}

ApplyTimerCall(s, op, now) ==
    IF op.k = "none" THEN s
    ELSE LET t == [s EXCEPT !.tops = @ + 1]
         IN  CASE op.k = "after" -> After(t, op.d, now)
               [] op.k = "every" -> Every(t, op.d, op.iv, now)
               [] op.k = "cancel" -> Cancel(CancelNoted(t, op.id, now), op.id)

\* A lifecycle callback calls Timer.After, Timer.Every or Timer.Cancel.
TimerCall ==
    /\ tpc = "idle"
    /\ \E op \in TimerCalls(Sched) : CommitSched(ApplyTimerCall(Sched, op, tick))
    /\ UNCHANGED <<tpc, tidx, tend, to_remove, freed, tick, nontimervars>>

\* Scheduler::Clear, called by Engine::Update on a scene change
SchedulerClear ==
    /\ tpc = "idle"
    /\ tasks # <<>>
    /\ tops < MaxTimerOps
    /\ tops' = tops + 1
    /\ tasks' = <<>>
    /\ thist' = [id \in DOMAIN thist |->
                   IF \E i \in DOMAIN tasks : tasks[i].id = id
                   THEN [thist[id] EXCEPT !.cleared = TRUE] ELSE thist[id]]
    /\ UNCHANGED <<next_task_id, task_capacity, tpc, tidx, tend, to_remove, freed, tick,
                   nontimervars>>

\* Scheduler::Update begins: the range-for takes begin and end of tasks.
SchedulerUpdateBegin ==
    /\ tpc = "idle"
    /\ tick < MaxTick
    /\ tick' = tick + 1
    /\ tpc' = "loop"
    /\ tidx' = 1
    /\ tend' = Len(tasks)
    /\ to_remove' = {}
    /\ freed' = FALSE
    /\ UNCHANGED <<tasks, next_task_id, task_capacity, thist, tops, nontimervars>>

\* The observers note an invocation of the callback of task id in update now.
Fired(h, now) ==
    [h EXCEPT !.fires = @ + 1,
              !.lastFire = now,
              !.lateFire = @ \/ h.cancelled,
              !.offbeat = @ \/ (h.lastFire # NoFrame /\
                                now # h.lastFire + (IF h.iv > 1 THEN h.iv ELSE 1))]

\* What reaches to_remove when the loop body runs on an element of the
\* released buffer: the fields read through the dangling reference are any
\* value, the callback pointer was moved from, writes are lost.
StaleOutcome(task) ==
    IF task.cancelled THEN {task.id}
    ELSE IF task.delay > 0 THEN {}
    ELSE IF task.interval > 0 /\ task.repeat_count # 0 THEN {} ELSE {task.id}

FreedOutcomes(task) == {StaleOutcome(task)} \cup {{}} \cup {{r} : r \in 1..MaxTasks}

\* task.interval > 0 && task.repeat_count != 0
Repeats(task) == task.interval > 0 /\ task.repeat_count # 0

\* One iteration of the loop of Scheduler::Update.
SchedulerUpdateStep ==
    /\ tpc = "loop"
    /\ tidx <= tend
    /\ tidx' = tidx + 1
    /\ IF freed
       THEN /\ \E rm \in FreedOutcomes([tasks[tidx] EXCEPT !.delay = @ - 1]) :
                  to_remove' = to_remove \cup rm
            /\ UNCHANGED <<tasks, next_task_id, task_capacity, thist, tops, freed>>
       ELSE LET task == tasks[tidx]
            IN  IF task.cancelled
                THEN /\ to_remove' = to_remove \cup {task.id}
                     /\ UNCHANGED <<tasks, next_task_id, task_capacity, thist, tops, freed>>
                ELSE IF task.delay - 1 > 0
                THEN /\ tasks' = [tasks EXCEPT ![tidx].delay = @ - 1]
                     /\ UNCHANGED <<next_task_id, task_capacity, thist, tops, freed,
                                    to_remove>>
                ELSE \E op \in {[k |-> "none"]} \cup TimerCalls(Sched) :
                        LET s0 == [Sched EXCEPT !.tasks[tidx].delay = @ - 1,
                                                !.thist[task.id] = Fired(@, tick)]
                            s1 == ApplyTimerCall(s0, op, tick)
                        IN  IF s1.grew
                            THEN /\ freed' = TRUE
                                 /\ \E rm \in FreedOutcomes(s1.tasks[tidx]) :
                                       to_remove' = to_remove \cup rm
                                 /\ CommitSched(s1)
                            ELSE /\ freed' = FALSE
                                 /\ IF Repeats(task)
                                    THEN /\ to_remove' = to_remove
                                         /\ CommitSched(
                                              [s1 EXCEPT !.tasks[tidx].delay = task.interval])
                                    ELSE /\ to_remove' = to_remove \cup {task.id}
                                         /\ CommitSched(s1)
    /\ UNCHANGED <<tpc, tend, tick, nontimervars>>

\* The loop has reached the end it took; the tasks named by to_remove are erased.
SchedulerUpdateEnd ==
    /\ tpc = "loop"
    /\ tidx > tend
    /\ tasks' = SelectSeq(tasks, LAMBDA t : t.id \notin to_remove)
    /\ tpc' = "idle"
    /\ UNCHANGED <<next_task_id, task_capacity, tidx, tend, to_remove, freed, tick, thist,
                   tops, nontimervars>>

NextTimer ==
    \/ TimerCall
    \/ SchedulerClear
    \/ SchedulerUpdateBegin
    \/ SchedulerUpdateStep
    \/ SchedulerUpdateEnd

SpecTimer == Init /\ [][NextTimer]_vars

\* ------------------------------------------------------------- tweens
MaxTweens == 3
MaxDuration == 2
MaxTweenTick == 3
MaxTweenOps == 3

\* The float fields of TweenInstance, scaled down: a value keeps this many
\* significant bits, and the result of an operation is rounded to the
\* nearest such value, ties to the even one.
Significand == 3

\* from, to and duration as scripts pass them to Tween.To
TweenFrom == {0, 10}
TweenTo == {1}
TweenDuration == (-1)..MaxDuration

RECURSIVE Ulp(_)
Ulp(m) == IF m < 2^Significand THEN 1 ELSE 2 * Ulp(m \div 2)

RoundFloat(x) ==
    LET m == IF x < 0 THEN -x ELSE x
        u == Ulp(m)
        q == m \div u
        r == m % u
        up == 2 * r > u \/ (2 * r = u /\ q % 2 = 1)
        v == (IF up THEN q + 1 ELSE q) * u
    IN  IF x < 0 THEN -v ELSE v

\* current_value when eased_t is 1, which every easing returns for t = 1
ValueAtOne(tween) ==
    RoundFloat(tween.start_value + RoundFloat(tween.end_value - tween.start_value))

\* t >= 1.0f, with t = std::min(tween.elapsed / tween.duration, 1.0f) and
\* elapsed > 0: a duration of 0 gives an infinite quotient, a negative one a
\* negative quotient
Complete(tween) ==
    IF tween.duration > 0 THEN tween.elapsed >= tween.duration ELSE tween.duration = 0

\* Tween's own state and its observers as one value.
Tw ==
    [tweens |-> tweens, next_tween_id |-> next_tween_id,
     tween_capacity |-> tween_capacity, twhist |-> twhist, twops |-> twops,
     grew |-> FALSE]

CommitTw(s) ==
    /\ tweens' = s.tweens
    /\ next_tween_id' = s.next_tween_id
    /\ tween_capacity' = s.tween_capacity
    /\ twhist' = s.twhist
    /\ twops' = s.twops

NewTweenHist(from, to, duration, now) ==
    [start_value |-> from, end_value |-> to, duration |-> duration, born |-> now,
     updates |-> 0, lastAtOne |-> FALSE, lastValue |-> 0, completes |-> 0,
     completeAt |-> NoFrame, cancelled |-> FALSE, cleared |-> FALSE,
     afterCancel |-> FALSE, afterComplete |-> FALSE]

\* Tween::To(from, to, duration, ease_type, on_update, on_complete) with
\* functions as callbacks
To(s, from, to, duration, now) ==
    LET id == s.next_tween_id
        tween == [id |-> id, start_value |-> from, end_value |-> to,
                  duration |-> duration, elapsed |-> 0, cancelled |-> FALSE]
    IN  [s EXCEPT !.next_tween_id = @ + 1,
                  !.twhist = (id :> NewTweenHist(from, to, duration, now)) @@ @,
                  !.tweens = Append(@, tween),
                  !.tween_capacity = IF Len(s.tweens) < @ THEN @
                                     ELSE IF @ = 0 THEN 1 ELSE 2 * @,
                  !.grew = @ \/ Len(s.tweens) = s.tween_capacity]

TweenIds(q) == {q[i].id : i \in DOMAIN q}

\* Tween::Cancel(tween_id)
TweenCancel(s, tween_id) ==
    [s EXCEPT !.tweens = [i \in DOMAIN @ |->
                            IF @[i].id = tween_id THEN [@[i] EXCEPT !.cancelled = TRUE]
                            ELSE @[i]]]

\* The observers note a Cancel that found its tween.
TweenCancelNoted(s, tween_id) ==
    IF tween_id \in TweenIds(s.tweens)
    THEN [s EXCEPT !.twhist[tween_id].cancelled = TRUE]
    ELSE s

\* What a script asks of the tween system in one call.
TweenCalls(s) ==
    IF s.twops >= MaxTweenOps THEN {}
    ELSE (IF s.next_tween_id > MaxTweens THEN {}
          ELSE {[k |-> "to", from |-> f, to |-> t, duration |-> d] :
                   f \in TweenFrom, t \in TweenTo, d \in TweenDuration})
         \cup {[k |-> "cancel", id |-> id] : id \in 0..(s.next_tween_id - 1)}

ApplyTweenCall(s, op, now) ==
    IF op.k = "none" THEN s
    ELSE LET t == [s EXCEPT !.twops = @ + 1]
         IN  CASE op.k = "to" -> To(t, op.from, op.to, op.duration, now)
               [] op.k = "cancel" -> TweenCancel(TweenCancelNoted(t, op.id), op.id)

\* A lifecycle callback calls Tween.To or Tween.Cancel.
TweenCall ==
    /\ twpc = "idle"
    /\ \E op \in TweenCalls(Tw) : CommitTw(ApplyTweenCall(Tw, op, twtick))
    /\ UNCHANGED <<twpc, twidx, twend, tween_to_remove, twfreed, twtick, nontweenvars>>

\* Tween::Clear, called by Engine::Update on a scene change
TweenClear ==
    /\ twpc = "idle"
    /\ tweens # <<>>
    /\ twops < MaxTweenOps
    /\ twops' = twops + 1
    /\ tweens' = <<>>
    /\ twhist' = [id \in DOMAIN twhist |->
                    IF id \in TweenIds(tweens)
                    THEN [twhist[id] EXCEPT !.cleared = TRUE] ELSE twhist[id]]
    /\ UNCHANGED <<next_tween_id, tween_capacity, twpc, twidx, twend, tween_to_remove,
                   twfreed, twtick, nontweenvars>>

\* Tween::Update begins: the range-for takes begin and end of tweens.
TweenUpdateBegin ==
    /\ twpc = "idle"
    /\ twtick < MaxTweenTick
    /\ twtick' = twtick + 1
    /\ twpc' = "loop"
    /\ twidx' = 1
    /\ twend' = Len(tweens)
    /\ tween_to_remove' = {}
    /\ twfreed' = FALSE
    /\ UNCHANGED <<tweens, next_tween_id, tween_capacity, twhist, twops, nontweenvars>>

\* The observers note a call of on_update of a tween.
OnUpdateCalled(h, tween) ==
    [h EXCEPT !.updates = @ + 1,
              !.lastAtOne = Complete(tween),
              !.lastValue = IF Complete(tween) THEN ValueAtOne(tween) ELSE @,
              !.afterCancel = @ \/ h.cancelled,
              !.afterComplete = @ \/ h.completes > 0]

\* The observers note a call of on_complete of a tween.
OnCompleteCalled(h, now) ==
    [h EXCEPT !.completes = @ + 1,
              !.completeAt = now,
              !.afterCancel = @ \/ h.cancelled,
              !.afterComplete = @ \/ h.completes > 0]

\* What reaches to_remove when tween.id is read through the reference that a
\* push_back inside a callback left dangling: the id the element had, or
\* whatever the released memory holds by then.
FreedIds(id) == {{id}} \cup {{}} \cup {{r} : r \in 1..MaxTweens}

\* The loop body on an element of the released buffer: both callback pointers
\* were moved from, so nothing is called; the write to elapsed is lost.
FreedTweenOutcomes(tween) ==
    {IF tween.cancelled \/ Complete(tween) THEN {tween.id} ELSE {}}
        \cup {{}} \cup {{r} : r \in 1..MaxTweens}

\* One iteration of the loop of Tween::Update.
TweenUpdateStep ==
    /\ twpc = "loop"
    /\ twidx <= twend
    /\ twidx' = twidx + 1
    /\ IF twfreed
       THEN /\ \E rm \in FreedTweenOutcomes([tweens[twidx] EXCEPT !.elapsed = @ + 1]) :
                  tween_to_remove' = tween_to_remove \cup rm
            /\ UNCHANGED <<tweens, next_tween_id, tween_capacity, twhist, twops, twfreed>>
       ELSE LET tween == [tweens[twidx] EXCEPT !.elapsed = @ + 1]
            IN  IF tween.cancelled
                THEN /\ tween_to_remove' = tween_to_remove \cup {tween.id}
                     /\ UNCHANGED <<tweens, next_tween_id, tween_capacity, twhist, twops,
                                    twfreed>>
                ELSE \E op1 \in {[k |-> "none"]} \cup TweenCalls(Tw) :
                        LET s0 == [Tw EXCEPT !.tweens[twidx] = tween,
                                             !.twhist[tween.id] = OnUpdateCalled(@, tween)]
                            s1 == ApplyTweenCall(s0, op1, twtick)
                        IN  IF ~Complete(tween)
                            THEN /\ twfreed' = s1.grew
                                 /\ tween_to_remove' = tween_to_remove
                                 /\ CommitTw(s1)
                            ELSE IF s1.grew
                            THEN /\ twfreed' = TRUE
                                 /\ \E rm \in FreedIds(tween.id) :
                                       tween_to_remove' = tween_to_remove \cup rm
                                 /\ CommitTw(s1)
                            ELSE \E op2 \in {[k |-> "none"]} \cup TweenCalls(s1) :
                                    LET s2 == [s1 EXCEPT !.twhist[tween.id] =
                                                            OnCompleteCalled(@, twtick)]
                                        s3 == ApplyTweenCall(s2, op2, twtick)
                                    IN  /\ twfreed' = s3.grew
                                        /\ \E rm \in (IF s3.grew THEN FreedIds(tween.id)
                                                      ELSE {{tween.id}}) :
                                              tween_to_remove' = tween_to_remove \cup rm
                                        /\ CommitTw(s3)
    /\ UNCHANGED <<twpc, twend, twtick, nontweenvars>>

\* The loop has reached the end it took; the tweens named by to_remove are erased.
TweenUpdateEnd ==
    /\ twpc = "loop"
    /\ twidx > twend
    /\ tweens' = SelectSeq(tweens, LAMBDA tw : tw.id \notin tween_to_remove)
    /\ twpc' = "idle"
    /\ UNCHANGED <<next_tween_id, tween_capacity, twidx, twend, tween_to_remove, twfreed,
                   twtick, twhist, twops, nontweenvars>>

NextTween ==
    \/ TweenCall
    \/ TweenClear
    \/ TweenUpdateBegin
    \/ TweenUpdateStep
    \/ TweenUpdateEnd

SpecTween == Init /\ [][NextTween]_vars

\* ------------------------------------------------------------- events
MaxSubscriptions == 3
MaxEmitDepth == 2
MaxEventOps == 5

\* EventSystem's own state and its observers as one value.
Ev ==
    [subscriptions |-> subscriptions, subscription_to_event |-> subscription_to_event,
     next_subscription_id |-> next_subscription_id, ehist |-> ehist, eops |-> eops]

CommitEv(s) ==
    /\ subscriptions' = s.subscriptions
    /\ subscription_to_event' = s.subscription_to_event
    /\ next_subscription_id' = s.next_subscription_id
    /\ ehist' = s.ehist
    /\ eops' = s.eops

\* EventSystem::Subscribe (once = FALSE) and EventSystem::SubscribeOnce
\* (once = TRUE) with a function as callback
Subscribe(s, event_name, once) ==
    LET id == s.next_subscription_id
    IN  [s EXCEPT !.next_subscription_id = @ + 1,
                  !.subscriptions[event_name] = Append(@, [id |-> id, once |-> once]),
                  !.subscription_to_event = (id :> event_name) @@ @,
                  !.ehist = (id :> [once |-> once, calls |-> 0, unsubscribed |-> FALSE,
                                    lateCall |-> FALSE]) @@ @]

\* subscription_to_event.erase for the keys in ids
EraseIds(map, ids) == [id \in DOMAIN map \ ids |-> map[id]]

UnsubscribeMapOnly(s, subscription_id) ==
    IF subscription_id \notin DOMAIN s.subscription_to_event THEN s
    ELSE [s EXCEPT !.subscription_to_event = EraseIds(@, {subscription_id})]

\* EventSystem::Unsubscribe(subscription_id)
Unsubscribe(s, subscription_id) ==
    IF subscription_id \notin DOMAIN s.subscription_to_event THEN s
    ELSE LET event_name == s.subscription_to_event[subscription_id]
         IN  [s EXCEPT !.subscriptions[event_name] =
                            SelectSeq(@, LAMBDA sub : sub.id # subscription_id),
                       !.subscription_to_event = EraseIds(@, {subscription_id})]

\* EventSystem::UnsubscribeAll(event_name); an event name without an entry in
\* subscriptions is one whose list is empty here.
UnsubscribeAll(s, event_name) ==
    LET subs == s.subscriptions[event_name]
    IN  [s EXCEPT !.subscription_to_event =
                       EraseIds(@, {subs[i].id : i \in 1..Len(subs)}),
                  !.subscriptions[event_name] = <<>>]

\* The observers note that a script's Unsubscribe(id) returned.
UnsubscribeNoted(s, subscription_id) ==
    IF subscription_id \in DOMAIN s.ehist
    THEN [s EXCEPT !.ehist[subscription_id].unsubscribed = TRUE]
    ELSE s

\* What a script asks of the event system in one call, Emit aside.
EventCalls(s) ==
    IF s.eops >= MaxEventOps THEN {}
    ELSE (IF s.next_subscription_id > MaxSubscriptions THEN {}
          ELSE {[k |-> "subscribe", event |-> e, once |-> o] :
                   e \in EventNames, o \in BOOLEAN})
         \cup {[k |-> "unsubscribe", id |-> id] : id \in 0..(s.next_subscription_id - 1)}
         \cup {[k |-> "unsubscribe_all", event |-> e] : e \in EventNames}

ApplyEventCall(s, op) ==
    IF op.k = "none" THEN s
    ELSE LET t == [s EXCEPT !.eops = @ + 1]
         IN  CASE op.k = "subscribe" -> Subscribe(t, op.event, op.once)
               [] op.k = "unsubscribe" ->
                     UnsubscribeNoted(Unsubscribe(t, op.id), op.id)
               [] op.k = "unsubscribe_all" -> UnsubscribeAll(t, op.event)

\* The ids of a list of subscriptions, in order.
Ids(subs) == [i \in 1..Len(subs) |-> subs[i].id]

EmitFrameEmpty(s, event_name) ==
    [event |-> event_name, subs_copy |-> <<>>, idx |-> 1, to_remove |-> <<>>,
     at_begin |-> Ids(s.subscriptions[event_name]),
     first_id |-> s.next_subscription_id, called |-> <<>>]

\* EventSystem::Emit up to the loop: subs_copy is taken, to_remove is empty.
\* The observers at_begin, first_id and called note who was subscribed and
\* which id was next when the call began, and whose callback it has invoked.
EmitFrame(s, event_name) ==
    [event |-> event_name, subs_copy |-> s.subscriptions[event_name], idx |-> 1,
     to_remove |-> <<>>,
     at_begin |-> Ids(s.subscriptions[event_name]),
     first_id |-> s.next_subscription_id, called |-> <<>>]

\* The observers note an invocation of the callback of a subscription.
Called(h) == [h EXCEPT !.calls = @ + 1, !.lateCall = @ \/ h.unsubscribed]

\* The running Emit has come back from the callback of subs_copy[idx].
AfterCallback(f) ==
    [f EXCEPT !.idx = @ + 1,
              !.called = Append(@, f.subs_copy[f.idx].id),
              !.to_remove = IF f.subs_copy[f.idx].once
                            THEN Append(@, f.subs_copy[f.idx].id) ELSE @]

RECURSIVE UnsubscribeEach(_, _)
UnsubscribeEach(s, ids) ==
    IF ids = <<>> THEN s ELSE UnsubscribeEach(Unsubscribe(s, Head(ids)), Tail(ids))

\* A lifecycle callback calls Event.Subscribe, Event.SubscribeOnce,
\* Event.Unsubscribe or Event.UnsubscribeAll.
EventCall ==
    /\ emits = <<>>
    /\ \E op \in EventCalls(Ev) : CommitEv(ApplyEventCall(Ev, op))
    /\ UNCHANGED <<emits, noneventvars>>

\* A lifecycle callback calls Event.Emit.
Emit ==
    /\ emits = <<>>
    /\ eops < MaxEventOps
    /\ \E event_name \in EventNames : emits' = <<EmitFrame(Ev, event_name)>>
    /\ eops' = eops + 1
    /\ UNCHANGED <<subscriptions, subscription_to_event, next_subscription_id, ehist,
                   noneventvars>>

\* One iteration of the loop of Emit whose callback makes at most one call
\* other than Emit.
EmitCallback ==
    /\ emits # <<>>
    /\ LET n == Len(emits)
           f == emits[n]
       IN  /\ f.idx <= Len(f.subs_copy)
           /\ \E op \in {[k |-> "none"]} \cup EventCalls(Ev) :
                 CommitEv(ApplyEventCall(
                    [Ev EXCEPT !.ehist[f.subs_copy[f.idx].id] = Called(@)], op))
           /\ emits' = [emits EXCEPT ![n] = AfterCallback(f)]
    /\ UNCHANGED noneventvars

\* The callback of one iteration calls Event.Emit itself.
EmitNested ==
    /\ emits # <<>>
    /\ Len(emits) < MaxEmitDepth
    /\ eops < MaxEventOps
    /\ LET f == emits[Len(emits)]
       IN  /\ f.idx <= Len(f.subs_copy)
           /\ ehist' = [ehist EXCEPT ![f.subs_copy[f.idx].id] = Called(@)]
    /\ \E event_name \in EventNames : emits' = Append(emits, EmitFrame(Ev, event_name))
    /\ eops' = eops + 1
    /\ UNCHANGED <<subscriptions, subscription_to_event, next_subscription_id, noneventvars>>

\* The loop of the innermost Emit is over: it unsubscribes the ids of
\* to_remove and returns, to the callback that called it if there is one.
EmitReturn ==
    /\ emits # <<>>
    /\ LET n == Len(emits)
           f == emits[n]
       IN  /\ f.idx > Len(f.subs_copy)
           /\ CommitEv(UnsubscribeEach(Ev, f.to_remove))
           /\ emits' = IF n = 1 THEN <<>>
                       ELSE [SubSeq(emits, 1, n - 1) EXCEPT ![n - 1] = AfterCallback(@)]
    /\ UNCHANGED noneventvars

\* EventSystem::Clear, called by Engine::Update on a scene change
EventClear ==
    /\ emits = <<>>
    /\ DOMAIN subscription_to_event # {}
    /\ eops < MaxEventOps
    /\ eops' = eops + 1
    /\ subscriptions' = [e \in EventNames |-> <<>>]
    /\ subscription_to_event' = <<>>
    /\ UNCHANGED <<next_subscription_id, emits, ehist, noneventvars>>

NextEvent ==
    \/ EventCall
    \/ Emit
    \/ EmitCallback
    \/ EmitNested
    \/ EmitReturn
    \/ EventClear

SpecEvent == Init /\ [][NextEvent]_vars

\* ------------------------------------------------------------- missing assets
MaxLoopFrames == 3
MaxAssetRequests == 2
MaxAudioCalls == 2

\* the asset names scripts use; no file exists for "missing"
AssetNames == {"asset", "missing"}

\* std::filesystem::exists of the file an asset name stands for
Exists(name) == name # "missing"

\* TextDB::GetFont: what it throws; a font loaded before is returned from
\* the cache, which holds only fonts whose file exists
GetFont(fontName) == IF Exists(fontName) THEN "none" ELSE "ResourceNotFoundException"

\* AudioDB::PlayChannel: what it throws
PlayChannel(audio_clip_name) ==
    IF Exists(audio_clip_name) THEN "none" ELSE "ResourceNotFoundException"

\* the image lookup of the flush: what it throws
GetTexture(imageName) == IF Exists(imageName) THEN "none" ELSE "ResourceNotFoundException"

\* What the call of a scripted callback throws in the dispatching pass when
\* the engine function the script called threw thrown: the binding layer
\* hands a native exception to the script as a script error, and an error
\* that leaves the script reaches the pass as luabridge::LuaException.
FromScript(thrown) == IF thrown = "none" THEN "none" ELSE "LuaException"

\* catch (luabridge::LuaException& e) { ReportError(...) } around the call of
\* a lifecycle callback: what goes on to the caller of the pass
Dispatched(thrown) == IF thrown = "LuaException" THEN "none" ELSE thrown

\* the first thing thrown while the requests of a queue are resolved in
\* order, thrown[i] being what the lookup of request i throws
FirstThrown(thrown) ==
    LET bad == {i \in DOMAIN thrown : thrown[i] # "none"}
    IN  IF bad = {} THEN "none"
        ELSE thrown[CHOOSE i \in bad : \A j \in bad : i <= j]

NoteAsked(name) == IF asked = NoFrame /\ ~Exists(name) THEN loop_frame ELSE asked

\* main's catch (const EngineException&) and catch (const std::exception&):
\* the process ends with code 1
MainCatches ==
    /\ loop_pc' = "exited"
    /\ exit_code' = 1

\* Engine::GameLoop polls the window events at the head of an iteration.
PollEvents ==
    /\ loop_pc = "poll"
    /\ \E q \in BOOLEAN : quit' = (quit \/ q \/ loop_frame >= MaxLoopFrames)
    /\ loop_pc' = "update"
    /\ UNCHANGED <<exit_code, loop_frame, image_names, text_fonts, audio_calls, asked,
                   reported, nonassetvars>>

\* A lifecycle callback queues an image draw.
ScriptImageDraw ==
    /\ loop_pc = "update"
    /\ Len(image_names) < MaxAssetRequests
    /\ \E name \in AssetNames :
          /\ image_names' = Append(image_names, name)
          /\ asked' = NoteAsked(name)
    /\ UNCHANGED <<loop_pc, quit, exit_code, loop_frame, text_fonts, audio_calls, reported,
                   nonassetvars>>

\* A lifecycle callback queues a text draw: TextDB::QueueTextDraw stores the
\* font name without looking it up.
ScriptTextDraw ==
    /\ loop_pc = "update"
    /\ Len(text_fonts) < MaxAssetRequests
    /\ \E name \in AssetNames :
          /\ text_fonts' = Append(text_fonts, name)
          /\ asked' = NoteAsked(name)
    /\ UNCHANGED <<loop_pc, quit, exit_code, loop_frame, image_names, audio_calls, reported,
                   nonassetvars>>

\* A lifecycle callback calls Audio.PlayChannel.
ScriptPlayChannel ==
    /\ loop_pc = "update"
    /\ audio_calls < MaxAudioCalls
    /\ audio_calls' = audio_calls + 1
    /\ \E name \in AssetNames :
          LET caught == FromScript(PlayChannel(name))
              thrown == Dispatched(caught)
          IN  /\ asked' = NoteAsked(name)
              /\ reported' = IF caught = "LuaException" THEN reported + 1 ELSE reported
              /\ IF thrown = "none"
                 THEN UNCHANGED <<loop_pc, exit_code>>
                 ELSE MainCatches
    /\ UNCHANGED <<quit, loop_frame, image_names, text_fonts, nonassetvars>>

\* Engine::Update returns and Engine::Render begins.
UpdateReturns ==
    /\ loop_pc = "update"
    /\ loop_pc' = "images"
    /\ UNCHANGED <<quit, exit_code, loop_frame, image_names, text_fonts, audio_calls, asked,
                   reported, nonassetvars>>

\* The image flush of Engine::Render looks up the image of each request.
RenderImages ==
    /\ loop_pc = "images"
    /\ IF FirstThrown([i \in DOMAIN image_names |-> GetTexture(image_names[i])]) = "none"
       THEN /\ image_names' = <<>>
            /\ loop_pc' = "texts"
            /\ UNCHANGED exit_code
       ELSE /\ MainCatches
            /\ UNCHANGED image_names
    /\ UNCHANGED <<quit, loop_frame, text_fonts, audio_calls, asked, reported, nonassetvars>>

\* TextDB::RenderQueuedTexts in Engine::Render gets the font of each request.
RenderTexts ==
    /\ loop_pc = "texts"
    /\ IF FirstThrown([i \in DOMAIN text_fonts |-> GetFont(text_fonts[i])]) = "none"
       THEN /\ text_fonts' = <<>>
            /\ loop_pc' = "late"
            /\ UNCHANGED exit_code
       ELSE /\ MainCatches
            /\ UNCHANGED text_fonts
    /\ UNCHANGED <<quit, loop_frame, image_names, audio_calls, asked, reported,
                   nonassetvars>>

\* The frame is presented and while (!quit) is tested; when the loop ends
\* main returns 0.
LoopTest ==
    /\ loop_pc = "late"
    /\ IF quit
       THEN /\ loop_pc' = "exited"
            /\ exit_code' = 0
            /\ UNCHANGED <<loop_frame, audio_calls>>
       ELSE /\ loop_pc' = "poll"
            /\ loop_frame' = loop_frame + 1
            /\ audio_calls' = 0
            /\ UNCHANGED exit_code
    /\ UNCHANGED <<quit, image_names, text_fonts, asked, reported, nonassetvars>>

NextAsset ==
    \/ PollEvents
    \/ ScriptImageDraw
    \/ ScriptTextDraw
    \/ ScriptPlayChannel
    \/ UpdateReturns
    \/ RenderImages
    \/ RenderTexts
    \/ LoopTest

SpecAsset == Init /\ [][NextAsset]_vars

\* ------------------------------------------------------------- puzzle
\* PuzzleGrid's fields grid_width, grid_height, num_piece_types, max_moves
\* and target_score, as a scene sets them
GridWidth == 3
GridHeight == 3
NumPieceTypes == 2
MaxMoves == 2
TargetScore == 60
MaxChain == 2

Cells == (1..GridWidth) \X (1..GridHeight)
Grids == [1..GridWidth -> [1..GridHeight -> 1..NumPieceTypes]]

\* The run scan of FindAllMatches along one line of cells: the positions of
\* the runs of three or more equal pieces. line[x] is the piece at x, and
\* the position after the last one reads as -1.
RECURSIVE ScanRuns(_, _, _, _, _)
ScanRuns(line, x, run_start, run_type, matched) ==
    IF x > Len(line) + 1 THEN matched
    ELSE LET current == IF x <= Len(line) THEN line[x] ELSE -1
         IN  IF current # run_type \/ x > Len(line)
             THEN ScanRuns(line, x + 1, x, current,
                           IF x - run_start >= 3 /\ run_type > 0
                           THEN matched \cup (run_start..(x - 1)) ELSE matched)
             ELSE ScanRuns(line, x + 1, run_start, run_type, matched)

\* PuzzleGrid:FindAllMatches on grid g
FindAllMatches(g) ==
    LET inRow == [y \in 1..GridHeight |->
                     ScanRuns([x \in 1..GridWidth |-> g[x][y]], 2, 1, g[1][y], {})]
        inColumn == [x \in 1..GridWidth |-> ScanRuns(g[x], 2, 1, g[x][1], {})]
    IN  {c \in Cells : c[1] \in inRow[c[2]] \/ c[2] \in inColumn[c[1]]}

\* PuzzleGrid:InitializeGrid: every cell is drawn again until
\* WouldCreateMatch is false for it, so no three equal pieces end up in a row
\* or in a column
InitialGrids == {g \in Grids : FindAllMatches(g) = {}}

\* the first three assignments of TrySwap
Swapped(g, a, b) ==
    [x \in 1..GridWidth |-> [y \in 1..GridHeight |->
        IF <<x, y>> = a THEN g[b[1]][b[2]]
        ELSE IF <<x, y>> = b THEN g[a[1]][a[2]]
        ELSE g[x][y]]]

\* a swap back that restores only one of the two cells
SwapBackHalf(g, a, b, temp) == [g EXCEPT ![b[1]][b[2]] = g[a[1]][a[2]]]

\* the else branch of TrySwap: grid[x2][y2] = grid[x1][y1]; grid[x1][y1] = temp,
\* temp being the piece (x1, y1) held before the swap
SwapBack(g, a, b, temp) ==
    LET g1 == [g EXCEPT ![b[1]][b[2]] = g[a[1]][a[2]]]
    IN  [g1 EXCEPT ![a[1]][a[2]] = temp]

\* points that do not count the matched cells
PointsFlat(ms) == 10

\* local points = #matches * 10
Points(ms) == Cardinality(ms) * 10

\* the removal loop of ProcessMatches
Removed(g, ms) ==
    [x \in 1..GridWidth |-> [y \in 1..GridHeight |->
        IF <<x, y>> \in ms THEN 0 ELSE g[x][y]]]

\* PuzzleGrid:ApplyGravity: each column is compacted towards y = grid_height
\* and its top is filled with math.random pieces; the grids it can leave
ApplyGravity(g) ==
    LET kept == [x \in 1..GridWidth |-> SelectSeq(g[x], LAMBDA v : v # 0)]
        write_y == [x \in 1..GridWidth |-> GridHeight - Len(kept[x])]
        filled == {c \in Cells : c[2] <= write_y[c[1]]}
    IN  {[x \in 1..GridWidth |-> [y \in 1..GridHeight |->
            IF y <= write_y[x] THEN random[<<x, y>>] ELSE kept[x][y - write_y[x]]]] :
         random \in [filled -> 1..NumPieceTypes]}

\* PuzzleGrid:CheckGameState
CheckGameState(sc, moves) ==
    IF sc >= TargetScore THEN [game_over |-> TRUE, game_won |-> TRUE]
    ELSE IF moves <= 0 THEN [game_over |-> TRUE, game_won |-> game_won]
    ELSE [game_over |-> game_over, game_won |-> game_won]

Adjacent(a, b) ==
    LET dx == IF a[1] > b[1] THEN a[1] - b[1] ELSE b[1] - a[1]
        dy == IF a[2] > b[2] THEN a[2] - b[2] ELSE b[2] - a[2]
    IN  (dx = 1 /\ dy = 0) \/ (dx = 0 /\ dy = 1)

\* PuzzleGrid:OnStart
PuzzleOnStart ==
    /\ ppc = "created"
    /\ grid' \in InitialGrids
    /\ moves_left' = MaxMoves
    /\ score' = 0
    /\ game_over' = FALSE
    /\ game_won' = FALSE
    /\ ppc' = "input"
    /\ UNCHANGED <<selected, matches, swapLog, nonpuzzlevars>>

\* PuzzleGrid:TrySwap(x1, y1, x2, y2) up to the call of ProcessMatches
TrySwap(a, b) ==
    LET temp == grid[a[1]][a[2]]
        g == Swapped(grid, a, b)
        found == FindAllMatches(g)
    IN  /\ swapLog' = [score |-> score, moves_left |-> moves_left,
                       first |-> Cardinality(found), chain |-> 0, rounds |-> 0,
                       differ |-> grid[a[1]][a[2]] # grid[b[1]][b[2]]]
        /\ selected' = <<-1, -1>>
        /\ IF found # {}
           THEN /\ moves_left' = moves_left - 1
                /\ grid' = g
                /\ matches' = found
                /\ ppc' = "process"
           ELSE /\ grid' = SwapBack(g, a, b, temp)
                /\ UNCHANGED <<moves_left, matches, ppc>>
        /\ UNCHANGED <<score, game_over, game_won>>

\* PuzzleGrid:HandleInput on a mouse click inside the grid, as OnUpdate calls
\* it while the game is not over
HandleInput ==
    /\ ppc = "input"
    /\ ~game_over
    /\ \E c \in Cells :
          IF selected = <<-1, -1>>
          THEN /\ selected' = c
               /\ swapLog' = <<>>
               /\ UNCHANGED <<grid, score, moves_left, game_over, game_won, ppc, matches>>
          ELSE IF Adjacent(c, selected)
          THEN TrySwap(selected, c)
          ELSE /\ selected' = c
               /\ swapLog' = <<>>
               /\ UNCHANGED <<grid, score, moves_left, game_over, game_won, ppc, matches>>
    /\ UNCHANGED nonpuzzlevars

\* PuzzleGrid:ProcessMatches(matches); the call it makes of itself on a
\* chain reaction is the next step
ProcessMatches ==
    /\ ppc = "process"
    /\ \E g \in ApplyGravity(Removed(grid, matches)) :
          LET points == Points(matches)
              new_matches == FindAllMatches(g)
          IN  /\ grid' = g
              /\ IF new_matches # {}
                 THEN /\ swapLog.rounds < MaxChain
                      /\ score' = score + points + Cardinality(new_matches) * 5
                      /\ matches' = new_matches
                      /\ swapLog' = [swapLog EXCEPT !.rounds = @ + 1,
                                                    !.chain = @ + Cardinality(new_matches)]
                      /\ UNCHANGED <<ppc, game_over, game_won>>
                 ELSE /\ score' = score + points
                      /\ matches' = {}
                      /\ ppc' = "input"
                      /\ game_over' = CheckGameState(score + points, moves_left).game_over
                      /\ game_won' = CheckGameState(score + points, moves_left).game_won
                      /\ UNCHANGED swapLog
    /\ UNCHANGED <<moves_left, selected, nonpuzzlevars>>

NextPuzzle ==
    \/ PuzzleOnStart
    \/ HandleInput
    \/ ProcessMatches

SpecPuzzle == Init /\ [][NextPuzzle]_vars

\* ------------------------------------------------------------- input
\* Input.cpp is not part of the sources; the operations below follow the
\* declarations and comments of Input.hpp and the calls of Engine::GameLoop.

\* Events SDL_PollEvent may return in one iteration of the frame loop.
MaxEventsPerFrame == 2

INPUT_STATE == {"UP", "JUST_BECAME_DOWN", "DOWN", "JUST_BECAME_UP"}

\* Input::GetKey, Input::GetMouseButton.
GetKey(k) == keyStates[k] \in {"DOWN", "JUST_BECAME_DOWN"}

\* Input::GetKeyDown, Input::GetMouseButtonDown.
GetKeyDown(k) == keyStates[k] = "JUST_BECAME_DOWN"

\* Input::GetKeyUp, Input::GetMouseButtonUp.
GetKeyUp(k) == keyStates[k] = "JUST_BECAME_UP"

\* Input::BeginFrame: the transient lists are cleared, the states are kept.
InputBeginFrame ==
    /\ ipc = "begin"
    /\ justBecameDown' = {}
    /\ justBecameUp' = {}
    /\ polled' = [k \in Keys |-> <<>>]
    /\ ipc' = "poll"
    /\ UNCHANGED <<keyStates, lastEvent, noninputvars>>

PolledCount == Len(polled["space"]) + Len(polled["mouse1"])

\* Input::ProcessEvent for SDL_KEYDOWN / SDL_MOUSEBUTTONDOWN (type "down") and
\* SDL_KEYUP / SDL_MOUSEBUTTONUP (type "up") of key k.
ProcessEvent(k, type) ==
    /\ ipc = "poll"
    /\ PolledCount < MaxEventsPerFrame
    /\ keyStates' = [keyStates EXCEPT ![k] =
                        IF type = "down" THEN "JUST_BECAME_DOWN" ELSE "JUST_BECAME_UP"]
    /\ justBecameDown' = IF type = "down" THEN justBecameDown \cup {k} ELSE justBecameDown
    /\ justBecameUp' = IF type = "up" THEN justBecameUp \cup {k} ELSE justBecameUp
    /\ polled' = [polled EXCEPT ![k] = Append(@, type)]
    /\ lastEvent' = [lastEvent EXCEPT ![k] = type]
    /\ UNCHANGED <<ipc, noninputvars>>

\* SDL_PollEvent returns 0: Update() and Render() run, and the scripts ask
\* the queries in the state this step reaches.
InputPolled ==
    /\ ipc = "poll"
    /\ ipc' = "update"
    /\ UNCHANGED <<keyStates, justBecameDown, justBecameUp, polled, lastEvent, noninputvars>>

LateUpdateKeepsJustDown(st) == IF st = "JUST_BECAME_UP" THEN "UP" ELSE st

\* One state of Input::LateUpdate.
LateUpdateState(st) ==
    CASE st = "JUST_BECAME_DOWN" -> "DOWN"
      [] st = "JUST_BECAME_UP" -> "UP"
      [] OTHER -> st

\* Input::LateUpdate, the last call of an iteration of the frame loop.
InputLateUpdate ==
    /\ ipc = "update"
    /\ keyStates' = [k \in Keys |-> LateUpdateState(keyStates[k])]
    /\ ipc' = "begin"
    /\ UNCHANGED <<justBecameDown, justBecameUp, polled, lastEvent, noninputvars>>

NextInput ==
    \/ InputBeginFrame
    \/ \E k \in Keys, type \in {"down", "up"} : ProcessEvent(k, type)
    \/ InputPolled
    \/ InputLateUpdate

SpecInput == Init /\ [][NextInput]_vars

\* ------------------------------------------------------------- collision layers

\* The highest bit index DefineLayer accepts; the masks are uint16_t.
MaxBitIndex == 15
Uint16 == 2 ^ (MaxBitIndex + 1)

\* The bit indices DefineLayer is called with.
BitIndices == {-1, 0, 1, 2, MaxBitIndex, MaxBitIndex + 1}

\* std::string operator< on the layer names used.
NameOrder == <<"default", "enemy", "player">>
NameRank(n) == CHOOSE i \in 1..Len(NameOrder) : NameOrder[i] = n
StringLess(a, b) == NameRank(a) < NameRank(b)

\* CollisionLayers::MakePairKey
MakePairKey(a, b) == IF StringLess(a, b) THEN a \o "," \o b ELSE b \o "," \o a

\* CollisionLayers::DoLayersCollide
DoLayersCollide(layer1, layer2) == MakePairKey(layer1, layer2) \in collision_matrix

\* x & y and x | y on uint16_t, bit by bit from bit i upward.
RECURSIVE BitAndFrom(_, _, _)
BitAndFrom(x, y, i) ==
    IF i > MaxBitIndex THEN 0
    ELSE (IF x % 2 = 1 /\ y % 2 = 1 THEN 2 ^ i ELSE 0)
         + BitAndFrom(x \div 2, y \div 2, i + 1)
BitAnd(x, y) == BitAndFrom(x, y, 0)

RECURSIVE BitOrFrom(_, _, _)
BitOrFrom(x, y, i) ==
    IF i > MaxBitIndex THEN 0
    ELSE (IF x % 2 = 1 \/ y % 2 = 1 THEN 2 ^ i ELSE 0)
         + BitOrFrom(x \div 2, y \div 2, i + 1)
BitOr(x, y) == BitOrFrom(x, y, 0)

\* static_cast<uint16_t>(1 << bit_index)
ShiftedBit(bit_index) == (2 ^ bit_index) % Uint16

\* CollisionLayers::GetCategoryBits
GetCategoryBits(layer_name) ==
    IF layer_bits[layer_name] = NoBit THEN 1 ELSE ShiftedBit(layer_bits[layer_name])

\* The loop of CollisionLayers::GetMaskBits over the entries of layer_bits.
RECURSIVE MaskOver(_, _)
MaskOver(entries, layer_name) ==
    IF entries = {} THEN 0
    ELSE LET other_layer == CHOOSE n \in entries : TRUE
             rest == MaskOver(entries \ {other_layer}, layer_name)
         IN  IF DoLayersCollide(layer_name, other_layer)
             THEN BitOr(rest, ShiftedBit(layer_bits[other_layer]))
             ELSE rest

\* CollisionLayers::GetMaskBits
GetMaskBits(layer_name) ==
    MaskOver({n \in LayerNames : layer_bits[n] # NoBit}, layer_name)

\* CollisionLayers::Init with the default layers and default collisions that
\* are among the names used.
LayersInit ==
    /\ layer_bits' = [n \in LayerNames |->
                         CASE n = "default" -> 0 [] n = "player" -> 1 [] n = "enemy" -> 2]
    /\ collision_matrix' = {MakePairKey("default", "default"), MakePairKey("player", "enemy")}
    /\ layerCall' = [fn |-> "Init", bit_index |-> 0, changed |-> TRUE]
    /\ UNCHANGED nonlayervars

DefineLayerUnchecked(name, bit_index) ==
    /\ layer_bits' = [layer_bits EXCEPT ![name] = bit_index]
    /\ layerCall' = [fn |-> "DefineLayer", bit_index |-> bit_index,
                     changed |-> layer_bits' # layer_bits]
    /\ UNCHANGED <<collision_matrix, nonlayervars>>

\* CollisionLayers::DefineLayer
DefineLayer(name, bit_index) ==
    /\ layer_bits' = IF bit_index < 0 \/ bit_index > MaxBitIndex
                     THEN layer_bits
                     ELSE [layer_bits EXCEPT ![name] = bit_index]
    /\ layerCall' = [fn |-> "DefineLayer", bit_index |-> bit_index,
                     changed |-> layer_bits' # layer_bits]
    /\ UNCHANGED <<collision_matrix, nonlayervars>>

\* CollisionLayers::SetLayerCollision
SetLayerCollision(layer1, layer2, collide) ==
    /\ collision_matrix' = IF collide
                           THEN collision_matrix \cup {MakePairKey(layer1, layer2)}
                           ELSE collision_matrix \ {MakePairKey(layer1, layer2)}
    /\ layerCall' = [fn |-> "SetLayerCollision", bit_index |-> 0,
                     changed |-> collision_matrix' # collision_matrix]
    /\ UNCHANGED <<layer_bits, nonlayervars>>

NextLayer ==
    \/ LayersInit
    \/ \E name \in LayerNames, bit_index \in BitIndices : DefineLayer(name, bit_index)
    \/ \E layer1, layer2 \in LayerNames, collide \in BOOLEAN :
          SetLayerCollision(layer1, layer2, collide)

SpecLayer == Init /\ [][NextLayer]_vars

\* ------------------------------------------------------------- scene change
\* Engine::Update's scene change branch with the registrations the scripts
\* make with the scheduler, the tween system and the event system.

\* The variables the scene change branch and its callbacks leave alone.
changerest == <<frame, pc, pending, startSnapshot, contacts, phase, drawvars, assetvars,
                puzzlevars, inputvars, layervars, templatevars, tpc, tidx, tend, to_remove,
                freed, tick, twpc, twidx, twend, tween_to_remove, twfreed, twtick, emits>>

\* What a callback registers in one call: a timer (Timer.After), a tween
\* (Tween.To) or an event subscription (Event.Subscribe); nothing otherwise.
Registers(kind) ==
    /\ IF kind = "after"
       THEN LET op == [k |-> "after", d |-> MaxDelay]
            IN  op \in TimerCalls(Sched) /\ CommitSched(ApplyTimerCall(Sched, op, tick))
       ELSE UNCHANGED <<tasks, next_task_id, task_capacity, thist, tops>>
    /\ IF kind = "to"
       THEN LET op == [k |-> "to", from |-> 0, to |-> 1, duration |-> MaxDuration]
            IN  op \in TweenCalls(Tw) /\ CommitTw(ApplyTweenCall(Tw, op, twtick))
       ELSE UNCHANGED <<tweens, next_tween_id, tween_capacity, twhist, twops>>
    /\ IF kind = "subscribe"
       THEN \E op \in EventCalls(Ev) :
               op.k = "subscribe" /\ ~op.once /\ CommitEv(ApplyEventCall(Ev, op))
       ELSE UNCHANGED <<subscriptions, subscription_to_event, next_subscription_id, ehist,
                        eops>>

\* An update callback of the running scene registers something or asks for
\* a scene change (Scene.Load).
ChangeUpdateCallback ==
    /\ cpc = "play"
    /\ \/ /\ \E kind \in {"after", "to", "subscribe"} : Registers(kind)
          /\ UNCHANGED dbvars
       \/ /\ ~next_scene
          /\ id_ctr + Len(SceneActors) <= MaxId
          /\ Commit([Cur EXCEPT !.next_scene = TRUE])
          /\ Registers("none")
    /\ UNCHANGED <<cpc, teardown, stamp, changerest>>

\* The destroy hooks loadScene runs, actor by actor in the order the registry
\* yields them.
RECURSIVE TeardownHooks(_, _)
TeardownHooks(s, order) ==
    IF order = <<>> THEN <<>>
    ELSE LET a == Head(order)
             log == TeardownLog(s, a)
         IN  [i \in 1..Len(log) |-> <<a, log[i]>>] \o TeardownHooks(s, Tail(order))

\* Engine::Update with a scene change requested: EventSystem::Clear,
\* Scheduler::Clear and Tween::Clear, then the call of loadScene up to its
\* loop over the actors.
ChangeClear ==
    /\ cpc = "play"
    /\ next_scene
    /\ subscriptions' = [e \in EventNames |-> <<>>]
    /\ subscription_to_event' = <<>>
    /\ tasks' = <<>>
    /\ thist' = [id \in DOMAIN thist |->
                   IF id \in TaskIds(tasks)
                   THEN [thist[id] EXCEPT !.cleared = TRUE] ELSE thist[id]]
    /\ tweens' = <<>>
    /\ twhist' = [id \in DOMAIN twhist |->
                    IF id \in TweenIds(tweens)
                    THEN [twhist[id] EXCEPT !.cleared = TRUE] ELSE twhist[id]]
    /\ stamp' = [task |-> next_task_id, tween |-> next_tween_id,
                 sub |-> next_subscription_id]
    /\ \E order \in Perms(DOMAIN actors \ Persistent(Cur)) :
          teardown' = TeardownHooks(Cur, order)
    /\ cpc' = "teardown"
    /\ UNCHANGED <<next_task_id, task_capacity, tops, next_tween_id, tween_capacity, twops,
                   next_subscription_id, ehist, eops, dbvars, changerest>>

\* One destroy hook of the loop of loadScene; a scripted OnDestroy may
\* register something.
ChangeOnDestroy ==
    /\ cpc = "teardown"
    /\ teardown # <<>>
    /\ teardown' = Tail(teardown)
    /\ IF HasOnDestroy(lua[Head(teardown)].type)
       THEN \E kind \in {"none", "after", "to", "subscribe"} : Registers(kind)
       ELSE Registers("none")
    /\ Commit([Cur EXCEPT !.hist[Head(teardown)] = OnDestroyCalled(@)])
    /\ UNCHANGED <<cpc, stamp, changerest>>

\* The rest of loadScene: the registry is rebuilt and the actors of the new
\* scene are loaded; the scene change has been processed.
ChangeLoaded ==
    /\ cpc = "teardown"
    /\ teardown = <<>>
    /\ \E order \in Perms(Persistent(Cur)) :
          \* the hooks of the loop were noted one by one by ChangeOnDestroy
          Commit([loadScene(Cur, order) EXCEPT !.hist = hist @@ @])
    /\ Registers("none")
    /\ cpc' = "loaded"
    /\ UNCHANGED <<teardown, stamp, changerest>>

\* Engine::Update goes on with the new scene.
ChangeResume ==
    /\ cpc = "loaded"
    /\ cpc' = "play"
    /\ Registers("none")
    /\ UNCHANGED <<dbvars, teardown, stamp, changerest>>

NextChange ==
    \/ ChangeUpdateCallback
    \/ ChangeClear
    \/ ChangeOnDestroy
    \/ ChangeLoaded
    \/ ChangeResume

SpecChange == Init /\ [][NextChange]_vars

\* ------------------------------------------------------------- missing template
\* SceneDB::InstantiateActor(temp) when loadTemplate finds no file for temp and
\* throws ResourceNotFoundException: the id is taken and the value-initialised
\* Actor made by std::make_unique<Actor>() is already in the registry.
InstantiateActorMissing(s) ==
    LET newId == s.id_ctr
    IN  [s EXCEPT !.id_ctr = @ + 1,
                  !.actors = (newId :> [NewActor(0, Len(s.idLog) + 1, <<>>)
                                           EXCEPT !.name = ""]) @@ @,
                  !.idLog = Append(@, newId)]

\* What a failed call left as it was: the registry, the active-iteration
\* list, the pending-add list and the three caches.
KeptBy(s, t) ==
    [registry |-> t.actors = s.actors,
     active |-> t.actor_id_vec = s.actor_id_vec,
     pending |-> t.actors_to_add = s.actors_to_add,
     caches |-> /\ t.on_start_cache = s.on_start_cache
                /\ t.on_update_cache = s.on_update_cache
                /\ t.on_late_update_cache = s.on_late_update_cache]

\* An iteration of the loop of ProcessSceneUpdate whose callback calls
\* Actor.Instantiate with the name of a template that has no file; the
\* exception reaches the pass as a scripting error.
MissingTemplateStep ==
    /\ pc = "update"
    /\ ops < MaxOps
    /\ id_ctr + (IF next_scene THEN Len(SceneActors) ELSE 0) < MaxId
    /\ \E e \in pending :
          /\ e \in on_update_cache
          /\ e[1] \in DOMAIN actors
          /\ ~actors[e[1]].destroyed
          /\ ~IsNative(lua[e].type)
          /\ ~Disabled(lua[e])
          /\ ~Suppressed(lua[e], frame)
          /\ pending' = Caught(pending \ {e}, [k |-> "error"])
          /\ LET s == Invoked([Cur EXCEPT !.hist[e].lastUpd = frame,
                                          !.ops = @ + 1,
                                          !.fault = frame], e)
                 t == InstantiateActorMissing(s)
             IN  /\ Commit(t)
                 /\ templateLog' = KeptBy(s, t)
    /\ phase' = Event(RUpdate)
    /\ UNCHANGED <<frame, pc, contacts, startSnapshot>>
    /\ UNCHANGED <<drawvars, timervars, tweenvars, eventvars, assetvars, puzzlevars,
                   inputvars, layervars, changevars>>

NextTemplate ==
    \/ Next
    \/ MissingTemplateStep

SpecTemplate == Init /\ [][NextTemplate]_vars

\* ------------------------------------------------------------- claims
Delivered(i) == hist[i].lastUpd # NoFrame \/ hist[i].lastLate # NoFrame

\* C1: within a frame the phase events are totally ordered, start callbacks
\* before update callbacks before collision callbacks before late-update
\* callbacks before the erasure of destroyed actors before the render flush:
\* no event of the running frame has a higher rank than the latest one.
C1_PhaseOrder == \A r \in phase.seen : r <= phase.last

\* C2: the physics world step and its collision callbacks take place before
\* the frame's late-update pass: while the world step runs, no OnLateUpdate of
\* the running frame has been delivered.
C2_PhysicsBeforeLate == pc = "physics" => RLate \notin phase.seen

\* C3: OnStart is invoked at most once per component instance over the run,
\* across frames, enable changes, destroy requests and scene changes.
C3_StartOnce == \A i \in DOMAIN hist : hist[i].starts <= 1

\* a started component on an actor that persisted across a scene change, after
\* the start pass that followed the re-registration
C3_Witness ==
    /\ pc = "update"
    /\ \E a, b \in DOMAIN actors :
          /\ a < b
          /\ KeyAB \in actors[a].components /\ KeyAB \in actors[b].components
          /\ hist[<<a, KeyB>>].starts = 1
          /\ hist[<<b, KeyB>>].starts = 1

\* C4: a scripted component that exposes OnStart has had its OnStart invoked
\* by the time an OnUpdate or OnLateUpdate is delivered to it.
C4_StartBeforeUpdate ==
    \A i \in DOMAIN hist : HasOnStart(lua[i].type) /\ Delivered(i) => hist[i].starts >= 1

\* C5: OnStart is never invoked on an instance after an OnUpdate or
\* OnLateUpdate has been delivered to it.
C5_NoStartAfterUpdate ==
    [][\A i \in DOMAIN hist : Delivered(i) => hist'[i].starts = hist[i].starts]_vars

\* C6: a component created by instantiating an actor in frame N receives no
\* OnUpdate and no OnLateUpdate in frame N; what it receives comes later.
C6_NoUpdateInCreationFrame ==
    \A i \in DOMAIN hist :
        hist[i].created # NoFrame =>
            /\ hist[i].lastUpd = NoFrame \/ hist[i].lastUpd > hist[i].created
            /\ hist[i].lastLate = NoFrame \/ hist[i].lastLate > hist[i].created

\* an instantiated component passed through the passes of its creation frame
\* and received OnUpdate and OnLateUpdate in a later frame
C6_Witness ==
    \E i \in DOMAIN hist :
        /\ hist[i].created # NoFrame
        /\ hist[i].lastUpd > hist[i].created
        /\ hist[i].lastLate > hist[i].created

\* C7: an OnStart skipped only for creation-frame suppression is attempted
\* again in a later frame: when the loop has played at least one whole frame
\* after the skip, the component has been started, provided its actor was
\* not destroyed and it stayed enabled.
C7_StartRetried ==
    pc = "quit" =>
        \A i \in DOMAIN hist :
            ( /\ hist[i].suppressedAt # NoFrame
              /\ hist[i].suppressedAt + 1 < frame
              /\ i[1] \in DOMAIN actors
              /\ ~actors[i[1]].destroyed
              /\ lua[i].enabled
              /\ ~hist[i].disabledEver )
            => hist[i].starts >= 1

\* C8: after a component destroyed its own actor in OnUpdate of frame N, no
\* component of that actor receives OnLateUpdate in frame N and the actor is
\* out of the registry in every later frame.
C8_SelfDestroy ==
    \A d \in selfDestroyed :
        /\ \A i \in DOMAIN hist : i[1] = d[1] => hist[i].lastLate # d[2]
        /\ frame > d[2] => d[1] \notin DOMAIN actors

\* the start pass of the frame after a self-destruction
C8_Witness == pc = "start" /\ \E d \in selfDestroyed : frame = d[2] + 1

\* C9: the destroy hooks of an actor's components run in ascending
\* lexicographic order of component key, on a destroy request and on a
\* scene change alike.
C9_DestroyOrder ==
    \A a \in DOMAIN destroyLog :
        \A i, j \in 1..Len(destroyLog[a]) :
            i < j => LexLess(destroyLog[a][i], destroyLog[a][j])

\* an actor destroyed on request whose components were added as AB, B, A
C9_Witness ==
    \E a \in DOMAIN actors :
        /\ actors[a].destroyed
        /\ KeyAB \in actors[a].component_keys
        /\ Len(destroyLog[a]) = 2

\* C10: no actor id is assigned to two actors over the run, and an actor in
\* the registry, persistent ones included, is filed under the id it was given.
C10_UniqueIds ==
    /\ \A i, j \in 1..Len(idLog) : i # j => idLog[i] # idLog[j]
    /\ \A a \in DOMAIN actors : actors[a].id = a /\ idLog[actors[a].uid] = a

\* an actor that persisted across a scene change stands beside the actor the
\* new scene brought, and an id handed out in between is gone from the registry
C10_Witness ==
    \E a, c \in DOMAIN actors :
        /\ a < c
        /\ KeyAB \in actors[a].component_keys /\ KeyAB \in actors[c].component_keys
        /\ \E k \in 1..Len(idLog) : idLog[k] \notin DOMAIN actors

\* A component every pass of the running frame finds eligible: its actor is
\* alive, it is scripted, it was never disabled and it is past its creation frame.
Eligible(e) ==
    /\ e[1] \in DOMAIN actors
    /\ ~actors[e[1]].destroyed
    /\ ~IsNative(lua[e].type)
    /\ lua[e].enabled
    /\ ~hist[e].disabledEver
    /\ ~Suppressed(lua[e], frame)

\* C11: a scripting error raised by a callback of a pass is caught there: when
\* a pass of a frame in which an error was raised has ended, every eligible
\* component of its cache has received the callback of that pass in that
\* frame (OnStart for the components of a loaded scene, OnUpdate, OnLateUpdate),
\* so the other components and the later passes are served as usual.
C11_FaultIsolation ==
    fault = frame /\ pending = {} =>
        /\ pc = "start" =>
              \A e \in DOMAIN hist :
                  Eligible(e) /\ HasOnStart(lua[e].type) /\ hist[e].created = NoFrame
                      => hist[e].starts >= 1
        /\ pc = "update" =>
              \A e \in on_update_cache : Eligible(e) => hist[e].lastUpd = frame
        /\ pc = "late" =>
              \A e \in on_late_update_cache : Eligible(e) => hist[e].lastLate = frame

\* the late-update pass of a frame has ended in which a callback raised an
\* error and two components received OnUpdate and one OnLateUpdate
C11_Witness ==
    /\ pc = "late" /\ pending = {} /\ fault = frame
    /\ \E e1, e2 \in on_update_cache :
          /\ e1 # e2 /\ Eligible(e1) /\ Eligible(e2)
          /\ hist[e1].lastUpd = frame /\ hist[e2].lastUpd = frame
    /\ \E e \in on_late_update_cache : Eligible(e) /\ hist[e].lastLate = frame

\* C12: while a pass reads the entries it took from a cache, every one of
\* them names an actor that is in the registry.
C12_CacheActorsPresent ==
    pc \in {"start", "update", "late"} => \A e \in pending : e[1] \in DOMAIN actors

\* C13: once the deferred removal of a component has been processed, no cache
\* holds an entry for it and it receives no OnUpdate or OnLateUpdate in a
\* later frame.
C13_RemovedComponentGone ==
    \A e \in DOMAIN hist :
        hist[e].removedAt # NoFrame =>
            /\ e \notin on_start_cache \cup on_update_cache \cup on_late_update_cache
            /\ hist[e].lastUpd <= hist[e].removedAt
            /\ hist[e].lastLate <= hist[e].removedAt

\* The cache entries that match component c filed under ck.
CachesMatch(ck, c, st, up, lt) ==
    IF IsNative(c.type)
    THEN ck \notin st /\ ck \in up /\ ck \in lt
    ELSE /\ ck \in st <=> (c.enabled /\ HasOnStart(c.type) /\ ~c.on_start)
         /\ ck \in up <=> (c.enabled /\ HasOnUpdate(c.type))
         /\ ck \in lt <=> (c.enabled /\ HasOnLateUpdate(c.type))

C15_DisabledNotCalled == \A e \in DOMAIN hist : ~hist[e].offCall

\* a component another one disabled during the running update pass has had
\* its turn in that pass and got no OnUpdate
C15_Witness ==
    /\ pc = "update"
    /\ \E e \in on_update_cache \ pending :
          /\ e \in offInPass
          /\ ~lua[e].enabled
          /\ hist[e].lastUpd # frame
          /\ hist[e].created = NoFrame
          /\ e[1] \in DOMAIN actors /\ ~actors[e[1]].destroyed
          /\ \E o \in on_update_cache : o # e /\ hist[o].lastUpd = frame

\* Component e was registered in frame hist[e].created after that frame's
\* start pass had taken its snapshot (during the start pass or later).
AfterSnapshot(e) ==
    /\ hist[e].created # NoFrame
    /\ hist[e].suppressedAt = NoFrame
    /\ frame = hist[e].created => pc # "timers" /\ e \notin startSnapshot

Alive(e) == e[1] \in DOMAIN actors /\ ~actors[e[1]].destroyed

\* C16: a component registered in the start cache while the start pass of
\* frame N runs (or later in frame N) is not started in frame N, stays in the
\* start cache for the rest of frame N while its actor is alive, and has been
\* started once the start pass of frame N+1 has ended, provided its actor is
\* alive and it was never disabled.
C16_StartSnapshot ==
    \A e \in DOMAIN hist :
        AfterSnapshot(e) /\ HasOnStart(lua[e].type) =>
            /\ frame = hist[e].created =>
                  /\ hist[e].starts = 0
                  /\ Alive(e) => e \in on_start_cache
            /\ ( /\ frame = hist[e].created + 1
                 /\ pc \in {"update", "late", "physics"}
                 /\ Alive(e) /\ lua[e].enabled /\ ~hist[e].disabledEver )
               => hist[e].starts = 1

\* the start pass is running and one of its OnStart callbacks has
\* instantiated an actor: the new component is in the start cache, outside
\* the pass's snapshot, not started
C16_Witness ==
    /\ pc = "start"
    /\ \E e \in on_start_cache :
          /\ hist[e].created = frame
          /\ hist[e].suppressedAt = NoFrame
          /\ e \notin pending
          /\ hist[e].starts = 0
          /\ Alive(e)
    /\ \E o \in DOMAIN hist : hist[o].starts = 1 /\ lua[o].on_start

\* C17 as stated: a step takes an actor out of the registry only if it is the
\* reconciliation step that follows the late-update pass.
C17_EraseOnlyAtReconcile ==
    [][DOMAIN actors \subseteq DOMAIN actors' \/ (pc = "late" /\ pc' = "physics")]_vars

\* C17 as amended: a step takes an actor out of the registry only if it is the
\* reconciliation step that follows the late-update pass or the scene load
\* at the head of Engine::Update; no callback step (start, update,
\* late-update, timer, collision) does, and an actor a callback marks
\* destroyed is still in the registry after that step.
C17_EraseOnlyAtReconcileOrLoad ==
    [][/\ ( \/ DOMAIN actors \subseteq DOMAIN actors'
            \/ (pc = "late" /\ pc' = "physics")
            \/ (pc = "loop" /\ pc' = "timers" /\ next_scene) )
       /\ pc' = pc => DOMAIN actors \subseteq DOMAIN actors']_vars

\* the reconciliation step of a frame has just erased an actor that a
\* callback of that frame's update pass had marked destroyed
C17_Witness ==
    /\ pc = "physics"
    /\ phase.last = RErase
    /\ \E d \in selfDestroyed : d[2] = frame /\ d[1] \notin DOMAIN actors

\* C18: an actor whose destruction was requested and reconciled (its
\* teardown ran and it is no longer awaiting ActorsPendingDestruction) is in
\* neither the registry nor the active-iteration list, from that
\* reconciliation on; so is an actor instantiated and destroyed in one frame.
C18_DestroyedGone ==
    \A a \in DOMAIN destroyLog :
        a \notin SeqRange(actors_to_destroy) =>
            /\ a \notin DOMAIN actors
            /\ a \notin SeqRange(actor_id_vec)

\* C19: the scene load of a scene change leaves in the registry exactly the
\* persistent actors that were not destroyed, each under its previous id with
\* its previous components in their previous state, and the actors of the new
\* scene; every other actor of the old registry has received its destroy
\* hooks and is in neither the registry nor the active-iteration list, which
\* lists exactly the registry.
C19_SceneChange ==
    [][(pc = "loop" /\ next_scene) =>
          LET keep == {a \in DOMAIN actors : actors[a].dont_destroy /\ ~actors[a].destroyed}
              fresh == DOMAIN actors' \ DOMAIN actors
          IN  /\ \A a \in keep :
                    /\ a \in DOMAIN actors'
                    /\ actors'[a].id = actors[a].id
                    /\ actors'[a].components = actors[a].components
                    /\ \A k \in actors[a].components : lua'[<<a, k>>] = lua[<<a, k>>]
              /\ DOMAIN actors' = keep \cup fresh
              /\ Cardinality(fresh) = Len(SceneActors)
              /\ \A n \in fresh :
                    /\ \E i \in 1..Len(SceneActors) :
                          actors'[n].components = CompKeys(SceneActors[i])
                    /\ \A k \in actors'[n].components : hist'[<<n, k>>].starts = 0
              /\ \A a \in DOMAIN actors \ keep :
                    /\ a \notin DOMAIN actors'
                    /\ a \notin SeqRange(actor_id_vec')
                    /\ a \in DOMAIN destroyLog'
                    /\ \A k \in actors[a].components :
                          HasOnDestroy(lua[<<a, k>>].type) => k \in SeqRange(destroyLog'[a])
              /\ SeqRange(actor_id_vec') = DOMAIN actors'
              /\ ~next_scene']_vars

\* right after the scene load of a scene change: a persistent actor of the
\* old scene is in the registry beside the actor of the new scene, and an
\* instantiated actor of the old scene has been torn down and is gone
C19_Witness ==
    /\ pc = "timers" /\ frame > 0 /\ phase.seen = {} /\ ~next_scene
    /\ SeqRange(actor_id_vec) = DOMAIN actors
    /\ \E a, n \in DOMAIN actors :
          /\ actors[a].dont_destroy /\ actors[a].uid = 1
          /\ actors[n].uid = Len(idLog) /\ KeyAB \in actors[n].components
          /\ \A k \in actors[n].components : hist[<<n, k>>].starts = 0
    /\ \E k \in 1..Len(idLog) :
          /\ idLog[k] \notin DOMAIN actors
          /\ idLog[k] \in DOMAIN destroyLog
          /\ destroyLog[idLog[k]] = <<KeyA, KeyB>>
          /\ idLog[k] \notin SeqRange(actors_to_destroy)

\* C20: a flush draws exactly the queued requests, in ascending z-order, and
\* requests of equal z-order in the order they were submitted: the drawn
\* sequence is the rearrangement of the submitted one in which an earlier
\* drawn request has a lower z-order, or the same z-order and an earlier
\* place in the submission order.
C20_FlushOrder ==
    /\ Len(rendered) = Len(flushed)
    /\ \E f \in Perms(1..Len(flushed)) :
          /\ \A i \in 1..Len(flushed) : rendered[i] = flushed[f[i]]
          /\ \A i, j \in 1..Len(flushed) :
                i < j =>
                   \/ flushed[f[i]].sorting_order < flushed[f[j]].sorting_order
                   \/ /\ flushed[f[i]].sorting_order = flushed[f[j]].sorting_order
                      /\ f[i] < f[j]

\* requests submitted with z-orders 1, 1, 0 have been flushed: the third was
\* drawn first, then the first, then the second
C20_Witness ==
    /\ Len(flushed) = 3
    /\ flushed[1].sorting_order = 1
    /\ flushed[2].sorting_order = 1
    /\ flushed[3].sorting_order = 0
    /\ rendered = <<flushed[3], flushed[1], flushed[2]>>

\* C21: after a flush of the image queue the queue is empty and the
\* submission counter is back at 0, whether or not a draw failed, so that
\* the counter always counts the requests submitted since the latest flush;
\* the requests a flush draws were all submitted in the frame it belongs to,
\* and no request of an earlier frame is in the queue.
C21_FlushClears ==
    /\ rpc \in {"texts", "pixels"} => image_draw_request_queue = <<>> /\ request_counter = 0
    /\ request_counter = Len(image_draw_request_queue)
    /\ \A i \in 1..Len(image_draw_request_queue) :
          image_draw_request_queue[i].frame = presented
    /\ \A i \in 1..Len(rendered) :
          rendered[i].frame = IF rpc \in {"update", "images"} THEN presented - 1 ELSE presented

\* the image flush of the second frame has run and one of its draw calls
\* failed: it drew the one request of the second frame, stamped 0 again
C21_Witness ==
    /\ rpc = "texts" /\ presented = 1 /\ draw_failed
    /\ Len(rendered) = 1 /\ rendered[1].frame = 1 /\ rendered[1].order_index = 0
    /\ image_draw_request_queue = <<>>

\* C22: within one Engine::Render no pixel request is drawn before an image
\* request or a text request: the pixel queue is flushed last.
C22_PixelsLast ==
    \A i, j \in 1..Len(screen) :
        i < j => ~(screen[i] = "pixel" /\ screen[j] \in {"image", "text"})

\* a frame with an image, a text and a pixel request has been rendered
C22_Witness ==
    /\ rpc = "update" /\ presented > 0
    /\ \E i, j, k \in 1..Len(screen) :
          screen[i] = "image" /\ screen[j] = "text" /\ screen[k] = "pixel"

\* The update in which the callback of a one-shot task is due: the first one
\* after its creation at which the elapsed time has reached the delay.
DueAt(h) == h.born + (IF h.d > 1 THEN h.d ELSE 1)

UpdateDone(n) == tick > n \/ (tick = n /\ tpc = "idle")

\* C23: a task created with After and neither cancelled nor cleared has its
\* callback invoked at most once, in the update in which it is due and in
\* no other, and once that update has ended it has been invoked and is out
\* of the task list.
C23_AfterOnce ==
    \A id \in DOMAIN thist :
        (thist[id].kind = "after" /\ ~thist[id].cancelled /\ ~thist[id].cleared) =>
            /\ thist[id].fires <= 1
            /\ thist[id].fires = 1 => thist[id].lastFire = DueAt(thist[id])
            /\ UpdateDone(DueAt(thist[id])) =>
                  thist[id].fires = 1 /\ id \notin TaskIds(tasks)

\* C24: a task created with Every and neither cancelled nor cleared is still
\* scheduled after an invocation of its callback, and the callback is invoked
\* again in the update in which a further interval has elapsed, for every
\* interval the call accepts.
C24_EveryRepeats ==
    \A id \in DOMAIN thist :
        ( /\ thist[id].kind = "every" /\ ~thist[id].cancelled /\ ~thist[id].cleared
          /\ thist[id].fires >= 1 /\ tpc = "idle" ) =>
            /\ id \in TaskIds(tasks)
            /\ ~thist[id].offbeat
            /\ tick < thist[id].lastFire + (IF thist[id].iv > 1 THEN thist[id].iv ELSE 1)

\* C25: after a Cancel that found its task the callback of the task is not
\* invoked again, and the task is out of the list once the update after the
\* Cancel has ended.
C25_CancelStops ==
    \A id \in DOMAIN thist :
        (thist[id].cancelled /\ ~thist[id].cleared) =>
            /\ ~thist[id].lateFire
            /\ UpdateDone(thist[id].cancelAt + 1) => id \notin TaskIds(tasks)

\* the tween update by which a tween created with this duration has reached
\* t >= 1, counted from the update count at its creation
TweenDue(h) == h.born + (IF h.duration > 1 THEN h.duration ELSE 1)

\* C26: a tween that is started and never cancelled or cleared calls
\* on_update in every tween update, the last time with exactly the end
\* value, then calls on_complete exactly once and nothing after that; seen
\* between two tween updates.
C26_TweenRuns ==
    twpc = "idle" =>
        \A id \in DOMAIN twhist :
            LET h == twhist[id]
            IN  (~h.cancelled /\ ~h.cleared) =>
                    /\ h.completes <= 1
                    /\ ~h.afterComplete
                    /\ h.completes = 0 => h.updates = twtick - h.born
                    /\ h.completes = 1 =>
                          /\ h.updates = h.completeAt - h.born
                          /\ h.lastAtOne
                          /\ h.lastValue = h.end_value
                          /\ id \notin TweenIds(tweens)
                    /\ twtick >= TweenDue(h) => h.completes = 1

\* C27: after Cancel(id) on a running tween, also when it is called from
\* inside the tween's own on_update, neither on_update nor on_complete of
\* that tween is invoked any more.
C27_CancelSilences ==
    \A id \in DOMAIN twhist : twhist[id].cancelled => ~twhist[id].afterCancel

\* C28: the callback of a SubscribeOnce subscription is invoked at most once
\* over any sequence of Emit calls, nested ones included.
C28_OnceAtMostOnce ==
    \A id \in DOMAIN ehist : ehist[id].once => ehist[id].calls <= 1

\* C29: once a script's Unsubscribe(id) has returned, the callback of that
\* subscription is not invoked by any Emit, the rest of an Emit in progress
\* included.
C29_UnsubscribedSilent ==
    \A id \in DOMAIN ehist : ~ehist[id].lateCall

\* C30: a draw or audio request naming an asset that cannot be resolved is
\* fatal, also when a scripted lifecycle callback makes it: from the request
\* on the frame loop gets no further than the flush of the iteration in
\* which it was made, and the process ends with exit code 1.
C30_MissingAssetFatal ==
    asked # NoFrame =>
        \/ loop_pc = "exited" /\ exit_code = 1
        \/ loop_pc \in {"update", "images", "texts"} /\ loop_frame = asked

SwapDone == ppc = "input" /\ swapLog # <<>>

\* C31 as stated: a swap of two adjacent cells that produces a match keeps
\* the swapped grid, raises the score by exactly the number of matched cells
\* times 10 and lowers the moves counter by exactly 1.
C31_MatchScoresTen ==
    /\ (ppc = "process" /\ swapLog.rounds = 0) =>
          matches # {} /\ matches = FindAllMatches(grid)
    /\ (SwapDone /\ swapLog.first > 0) =>
          /\ score = swapLog.score + swapLog.first * 10
          /\ moves_left = swapLog.moves_left - 1

\* C31 as amended: a swap that produces a match is not undone (the matches
\* handed to ProcessMatches are those of the swapped grid), lowers the moves
\* counter by exactly 1, and raises the score by 10 for every cell the swap
\* matched plus 15 for every cell matched by the chain reactions that follow
\* the refill.
C31_MatchScoresWithChains ==
    /\ (ppc = "process" /\ swapLog.rounds = 0) =>
          matches # {} /\ matches = FindAllMatches(grid)
    /\ ppc = "process" => moves_left = swapLog.moves_left - 1
    /\ (SwapDone /\ swapLog.first > 0) =>
          /\ score = swapLog.score + swapLog.first * 10 + swapLog.chain * 15
          /\ moves_left = swapLog.moves_left - 1

\* a second scoring swap whose refill set off a chain reaction
C31_Witness ==
    /\ SwapDone
    /\ swapLog.first > 0
    /\ swapLog.chain > 0
    /\ swapLog.score > 0

\* C32: a swap of two adjacent cells that produces no match leaves the score
\* and the moves counter unchanged and every grid cell with the value it held
\* before the swap.
C32_NoMatchRestores ==
    [][(ppc = "input" /\ selected # <<-1, -1>> /\ selected' = <<-1, -1>> /\ ppc' = "input")
          => (grid' = grid /\ score' = score /\ moves_left' = moves_left)]_vars

\* a swap of two different pieces found no match, after an earlier swap scored
C32_Witness ==
    /\ SwapDone
    /\ swapLog.first = 0
    /\ swapLog.differ
    /\ score > 0
    /\ ~game_over

\* An event of the given type is among those polled for k in this iteration.
PolledSome(k, type) == \E i \in 1..Len(polled[k]) : polled[k][i] = type

\* The last event polled for k in this iteration has the given type.
PolledLast(k, type) == polled[k] # <<>> /\ polled[k][Len(polled[k])] = type

Defined(n) == layer_bits[n] # NoBit

\* Category bits of A meet mask bits of B exactly when the table says that A
\* and B collide, and the table answers the same in both orders.
MaskAgrees(A, B) ==
    /\ (BitAnd(GetCategoryBits(A), GetMaskBits(B)) # 0) <=> DoLayersCollide(A, B)
    /\ DoLayersCollide(A, B) <=> DoLayersCollide(B, A)

\* A call of DefineLayer with a bit index outside 0..15 changed nothing.
RejectedDefineKeeps ==
    (/\ layerCall.fn = "DefineLayer"
     /\ (layerCall.bit_index < 0 \/ layerCall.bit_index > MaxBitIndex))
        => ~layerCall.changed

\* C36 as stated: for any two layer names A and B defined on distinct bit
\* indices, the category bits of A intersect the mask bits of B exactly when
\* DoLayersCollide(A, B), DoLayersCollide is symmetric, and DefineLayer with a
\* bit index below 0 or above 15 leaves the table unchanged.
C36_MaskMatchesTable ==
    /\ \A A, B \in LayerNames :
          (Defined(A) /\ Defined(B) /\ layer_bits[A] # layer_bits[B]) => MaskAgrees(A, B)
    /\ RejectedDefineKeeps

\* C36 amended: the same for any two defined layer names A and B on distinct
\* bit indices when no other defined name shares the bit index of A.
C36_MaskMatchesTableUnshared ==
    /\ \A A, B \in LayerNames :
          (/\ Defined(A) /\ Defined(B) /\ layer_bits[A] # layer_bits[B]
           /\ \A C \in LayerNames \ {A} : layer_bits[C] # layer_bits[A])
              => MaskAgrees(A, B)
    /\ RejectedDefineKeeps

\* A layer alone on bit 15 that collides with a layer sharing its bit with a
\* third one, right after a rejected DefineLayer.
C36_Witness ==
    /\ layerCall.fn = "DefineLayer" /\ layerCall.bit_index = MaxBitIndex + 1
    /\ layer_bits["default"] = MaxBitIndex
    /\ layer_bits["enemy"] = 1 /\ layer_bits["player"] = 1
    /\ DoLayersCollide("default", "player")
    /\ ~DoLayersCollide("default", "enemy")
    /\ BitAnd(GetCategoryBits("default"), GetMaskBits("player")) = 2 ^ MaxBitIndex


\* p is an initial part of q.
IsPrefix(p, q) == Len(p) <= Len(q) /\ \A i \in 1..Len(p) : p[i] = q[i]

\* The loop of the call of Emit recorded in frame f is over.
LoopOver(f) == f.idx > Len(f.subs_copy)

\* C34: a call of Emit invokes the subscribers of its event that were
\* subscribed when the call began, each once and in subscription order, and
\* none other; a subscriber added during the call is not invoked by it, and a
\* call of Emit invokes every subscriber of its event added before it began
\* and still subscribed, so also one added during an earlier emission.
C34_EmitCallsSnapshot ==
    \A n \in 1..Len(emits) :
        LET f == emits[n]
        IN  /\ IsPrefix(f.called, f.at_begin)
            /\ LoopOver(f) => f.called = f.at_begin
            /\ \A i \in 1..Len(f.called) : f.called[i] < f.first_id
            /\ LoopOver(f) =>
                  \A id \in DOMAIN subscription_to_event :
                      (subscription_to_event[id] = f.event /\ id < f.first_id)
                          => \E i \in 1..Len(f.called) : f.called[i] = id

\* The second of two subscribers calls Emit for their event after the first
\* has added a third subscriber to it: the inner call has invoked all three,
\* the outer call the first only so far.
C34_Witness ==
    /\ Len(emits) = 2
    /\ emits[1].event = emits[2].event
    /\ emits[1].first_id = 3 /\ emits[1].called = <<1>>
    /\ emits[2].called = <<1, 2, 3>> /\ LoopOver(emits[2])
    /\ subscription_to_event[3] = emits[1].event

\* The subscriber entries that carry the id, as <<event name, position>>.
Entries(id) ==
    {x \in EventNames \X (1..MaxSubscriptions) :
        x[2] <= Len(subscriptions[x[1]]) /\ subscriptions[x[1]][x[2]].id = id}

\* C40: after every operation of the event system an id is a key of the
\* id-to-event map exactly when one subscriber entry carries that id, and that
\* entry is in the list of the event the map names; no id has two entries.
C40_MapMatchesLists ==
    \A id \in 0..next_subscription_id :
        /\ Cardinality(Entries(id)) <= 1
        /\ id \in DOMAIN subscription_to_event <=> Entries(id) # {}
        /\ \A x \in Entries(id) : subscription_to_event[id] = x[1]

\* Two subscriptions on different events are left after a once-subscription
\* was invoked and removed by an emission.
C40_Witness ==
    /\ emits = <<>>
    /\ DOMAIN subscription_to_event = {2, 3}
    /\ subscription_to_event[2] # subscription_to_event[3]
    /\ ehist[1].once /\ ehist[1].calls = 1


\* C37: no component instance has its destroy callback run more than once,
\* whatever sequence of destroy requests, component removals and scene changes
\* the scripts make.
C37_OnDestroyOnce ==
    \A e \in DOMAIN hist : HasOnDestroy(lua[e].type) => hist[e].destroys <= 1

ActorNames == {"Player", "Enemy"}

\* C38: whenever a script asks, Scene.Find and Scene.FindAll return no actor
\* whose destroy flag is set, be it in the active-iteration list or in the
\* pending-add list.
C38_FindSkipsDestroyed ==
    \A name \in ActorNames :
        /\ \A i \in 1..Len(FindActor(Cur, name)) : ~actors[FindActor(Cur, name)[i]].destroyed
        /\ \A i \in 1..Len(FindAllActor(Cur, name)) :
              ~actors[FindAllActor(Cur, name)[i]].destroyed

\* The part of C38 about Scene.FindAll alone.
C38_FindAllSkipsDestroyed ==
    \A name \in ActorNames :
        \A i \in 1..Len(FindAllActor(Cur, name)) :
            ~actors[FindAllActor(Cur, name)[i]].destroyed


\* C35: when a requested scene change has been processed, no timer, tween or
\* event subscription created before the actors of the new scene were loaded
\* is still registered, be it created by an update callback of the old scene
\* or by an OnDestroy callback run while the old scene was torn down.
C35_NothingSurvivesChange ==
    cpc = "loaded" =>
        /\ tasks = <<>>
        /\ tweens = <<>>
        /\ DOMAIN subscription_to_event = {}

\* The part of C35 about the registrations made before Engine::Update took
\* the scene change branch: what is registered when the change has been
\* processed was registered after the per-scene systems were cleared.
C35_EarlierRegistrationsCleared ==
    cpc = "loaded" =>
        /\ \A id \in TaskIds(tasks) : id >= stamp.task
        /\ \A id \in TweenIds(tweens) : id >= stamp.tween
        /\ \A id \in DOMAIN subscription_to_event : id >= stamp.sub


\* C39: an instantiation that fails because the template does not exist
\* leaves the registry, the active-iteration list, the pending-add list and
\* the three caches exactly as they were; no partly built actor stays in the
\* registry.
C39_FailedInstantiateKeepsAll ==
    templateLog # <<>> =>
        /\ templateLog.registry
        /\ templateLog.active
        /\ templateLog.pending
        /\ templateLog.caches

\* The part of C39 about the two lists and the three caches.
C39_FailedInstantiateKeepsLists ==
    templateLog # <<>> =>
        templateLog.active /\ templateLog.pending /\ templateLog.caches


====
